---- MODULE Spec2Model ----
(***************************************************************************)
(* Verification model of mini-RPC: the multiplexed client transport        *)
(* (transport/client_transport.go), the server dispatcher and its graceful *)
(* shutdown (server/server.go), the business handler and the client facade *)
(* (package client).                                                       *)
(***************************************************************************)
EXTENDS Integers, Sequences, FiniteSets, TLC

(***************************************************************************)
(* Bounds of the model.                                                    *)
(***************************************************************************)
NumCallers == 2
MaxInbound == 2
MaxHeartbeats == 1
MaxMethodLen == 4
NumConns == 2
MaxFrames == 2
ShutConns == 1
NumCalls == 2
PoolSize == 2
NumAddrs == 1
MaxMws == 3
MaxRlCalls == 4
TicksPerSec == 2
MaxTicks == 4
NumToReqs == 2
MaxRetries == 2
MaxBodyLen == 2

MaxStrLen == 2

MaxPayloadLen == 3

NumPickers == 2

MaxPicks == 4

MaxInstances == 3

\* goroutines calling ConnPool.Get and Put
NumGetters == 3

\* maxConns of the pool
MaxConns == 2

\* Get calls per goroutine
MaxGets == 2

(***************************************************************************)
(* Program constants.                                                      *)
(***************************************************************************)
MsgTypeRequest == 0
MsgTypeResponse == 1
MsgTypeHeartbeat == 2
HeaderSize == 14
ChanCap == 1

Callers == 1..NumCallers

VARIABLES
    seq,        \* ClientTransport.seq
    sending,    \* ClientTransport.sending is held
    pending,    \* ClientTransport.pending: seq -> response channel (named by its caller)
    got,        \* the envelopes sent into each caller's response channel
    sendPc,     \* position of each caller in Send and in the wait on its channel
    mySeq,      \* the local seq of each caller's Send
    wire,       \* the chunks written to the connection, one per Write call
    connState,  \* "open" or "reset" (connection broken: writes fail)
    nInbound,   \* number of frames recvLoop has decoded
    recvPc,     \* position of recvLoop
    cur,        \* the frame recvLoop has decoded
    target,     \* the channel recvLoop has loaded from the pending table
    rangeSnap,  \* the pending table when closeAllPending's Range began
    visited,    \* keys Range has visited
    hbPc,       \* position of heartbeatLoop
    hbCount     \* ticks of the heartbeat ticker so far

ctVars == <<seq, sending, pending, got, sendPc, mySeq, wire, connState,
            nInbound, recvPc, cur, target, rangeSnap, visited, hbPc, hbCount>>

VARIABLES
    listener,    \* Server.listener: "nil", "open" or "closed"
    servePc,     \* position of Serve
    serveResult, \* what Serve returned: "none" (not yet), "nil" or "err"
    acceptErr,   \* why Accept returned an error: "none", "closed" or "real"
    regTodo,     \* services Serve has still to register
    svrRegistry, \* Server.registry is set
    registry,    \* services the registry lists under advertiseAddr
    shutdown,    \* Server.shutdown
    shPc,        \* position of Shutdown
    shTodo,      \* services Shutdown's loop has still to visit
    shResult,    \* what Shutdown returned: "none" (not yet), "ok" or "timeout"
    done,        \* Shutdown's done channel is closed
    waiterPc,    \* position of Shutdown's wg.Wait goroutine
    timerFired,  \* time.After(timeout) has fired
    wg,          \* counter of Server.wg
    conn,        \* per connection: "none" (not yet accepted), "open" or "closed"
    nFrames,     \* number of frames the readers have decoded
    writeMu,     \* per connection: handleConn's writeMu is held
    srvWire,     \* per connection: the chunks written, one per Write call
    workers,     \* the handleRequest goroutines, in spawn order
    crashed      \* the process died of an unrecovered panic

srvVars == <<listener, servePc, serveResult, acceptErr, regTodo, svrRegistry, registry,
             shutdown, shPc, shTodo, shResult, done, waiterPc, timerFired, wg, conn,
             nFrames, writeMu, srvWire, workers, crashed>>

VARIABLES
    bhReq,       \* the request envelope given to businessHandler
    bhResp,      \* what businessHandler returned
    bhPc         \* "call" before the call, "returned" after it

bhVars == <<bhReq, bhResp, bhPc>>

VARIABLES
    counter,     \* Client.counter
    transports,  \* Client.transports: per address the pool, <<>> when the map has no entry
    callPc,      \* position of each Call
    callAddr,    \* the address the balancer picked for each Call
    callN,       \* the counter value each getTransport captured
    callT,       \* the index of the transport getTransport returned to each Call
    callBroken,  \* the transports that were already broken when each Call began
    made,        \* per address the number of pool arrays made so far
    dialled      \* per address the number of connections net.Dial has returned

facVars == <<counter, transports, callPc, callAddr, callN, callT, callBroken, made, dialled>>

VARIABLES
    middlewares, \* Server.middlewares
    handler,     \* Server.handler: <<>> before Serve, then the composed handler
    reqTrace     \* the layers the latest request entered, in order

mwVars == <<middlewares, handler, reqTrace>>

VARIABLES
    now,         \* the clock, in ticks
    limTokens,   \* the limiter's tokens, in 1/TicksPerSec of a token
    limLast,     \* the time of the limiter's last update
    rlCalls      \* the calls through the RateLimit handler so far, in order

rlVars == <<now, limTokens, limLast, rlCalls>>

VARIABLES
    toPc,        \* per request: position of the Timeout handler
    toResp,      \* per request: the envelope the Timeout handler returned
    toDone,      \* per request: the contents of its done channel
    toTimer,     \* per request: ctx.Done() is closed by the deadline
    dsPc,        \* per request: position of the goroutine running next
    dsResult     \* per request: the envelope next returns

toVars == <<toPc, toResp, toDone, toTimer, dsPc, dsResult>>

VARIABLES
    rtMax,       \* maxRetries of the Retry middleware
    rtNext,      \* the error of the response next gives to its k-th invocation
    rtCalls,     \* the number of invocations of next by the request
    rtResp,      \* the error of the response the Retry handler returned
    rtPc         \* "call" before the request, "returned" after it

rtVars == <<rtMax, rtNext, rtCalls, rtResp, rtPc>>

VARIABLES
    prHeader,    \* the header given to protocol.Encode
    prBody,      \* the body given to protocol.Encode
    prStream,    \* the bytes of the stream protocol.Decode reads
    prOut,       \* what protocol.Decode returned
    prPc         \* "encode", "decode" or "decoded"

prVars == <<prHeader, prBody, prStream, prOut, prPc>>

\* one codec round trip: the codec type picked for the frame, the envelope
\* handed to Encode, the bytes Encode returned (a byte string of the binary
\* codec, the text of the JSON codec), what Decode left in a fresh RPCMessage
\* (or its error, or its panic), and the position of the round trip
VARIABLES cdType, cdMsg, cdData, cdOut, cdPc

cdVars == <<cdType, cdMsg, cdData, cdOut, cdPc>>

\* one Client.Call: its serviceMethod, its position, the collaborators it
\* has called so far, the envelope read from the response channel, the
\* error it returned and whether json.Unmarshal has written into reply
VARIABLES clMethod, clPc, clTouched, clResp, clErr, clReply

clVars == <<clMethod, clPc, clTouched, clResp, clErr, clReply>>

\* a RoundRobinBalancer and the goroutines calling Pick on one instance
\* list: the counter, the list, per goroutine its position in Pick, the
\* index it computed and what its last Pick returned, and the indices
\* computed so far in the order of the atomic adds
VARIABLES rrCounter, rrInstances, rrPc, rrIndex, rrResult, rrPicks

rrVars == <<rrCounter, rrInstances, rrPc, rrIndex, rrResult, rrPicks>>

\* one call of WeightedRandomBalancer.Pick: the weights of the instances of
\* its list, its position and what it returned
VARIABLES wrWeights, wrPc, wrResult

wrVars == <<wrWeights, wrPc, wrResult>>

\* a ConnPool: the buffered channel conns, curConns, the connections made so
\* far, and per goroutine its position in Get/Put, the connection it holds,
\* the error its last Get returned and the Get calls it finished
VARIABLES poolConns, curConns, created, getPc, getConn, getErr, gets

cpVars == <<poolConns, curConns, created, getPc, getConn, getErr, gets>>

nonCTVars == <<srvVars, bhVars, facVars, mwVars, rlVars, toVars, rtVars, prVars, cdVars, clVars, rrVars, wrVars, cpVars>>

nonSrvVars == <<ctVars, bhVars, facVars, mwVars, rlVars, toVars, rtVars, prVars, cdVars, clVars, rrVars, wrVars, cpVars>>

nonBHVars == <<ctVars, srvVars, facVars, mwVars, rlVars, toVars, rtVars, prVars, cdVars, clVars, rrVars, wrVars, cpVars>>

nonFacVars == <<ctVars, srvVars, bhVars, mwVars, rlVars, toVars, rtVars, prVars, cdVars, clVars, rrVars, wrVars, cpVars>>

nonMwVars == <<ctVars, srvVars, bhVars, facVars, rlVars, toVars, rtVars, prVars, cdVars, clVars, rrVars, wrVars, cpVars>>

nonRlVars == <<ctVars, srvVars, bhVars, facVars, mwVars, toVars, rtVars, prVars, cdVars, clVars, rrVars, wrVars, cpVars>>

nonToVars == <<ctVars, srvVars, bhVars, facVars, mwVars, rlVars, rtVars, prVars, cdVars, clVars, rrVars, wrVars, cpVars>>

nonRtVars == <<ctVars, srvVars, bhVars, facVars, mwVars, rlVars, toVars, prVars, cdVars, clVars, rrVars, wrVars, cpVars>>

nonPrVars == <<ctVars, srvVars, bhVars, facVars, mwVars, rlVars, toVars, rtVars, cdVars, clVars, rrVars, wrVars, cpVars>>

nonCdVars == <<ctVars, srvVars, bhVars, facVars, mwVars, rlVars, toVars, rtVars, prVars, clVars, rrVars, wrVars, cpVars>>

nonClVars == <<ctVars, srvVars, bhVars, facVars, mwVars, rlVars, toVars, rtVars, prVars, cdVars, rrVars, wrVars, cpVars>>

nonRrVars == <<ctVars, srvVars, bhVars, facVars, mwVars, rlVars, toVars, rtVars, prVars, cdVars, clVars, wrVars, cpVars>>

nonWrVars == <<ctVars, srvVars, bhVars, facVars, mwVars, rlVars, toVars, rtVars, prVars, cdVars, clVars, rrVars, cpVars>>

nonCpVars == <<ctVars, srvVars, bhVars, facVars, mwVars, rlVars, toVars, rtVars, prVars, cdVars, clVars, rrVars, wrVars>>

(***************************************************************************)
(* sync.Map operations on the pending table.                               *)
(***************************************************************************)
EmptyMap == [k \in {} |-> 0]

MapStore(m, k, v) == [x \in DOMAIN m \cup {k} |-> IF x = k THEN v ELSE m[x]]

MapDelete(m, k) == [x \in DOMAIN m \ {k} |-> m[x]]

\* ClientTransport.seq is a uint32.  It is held as the 32-bit integer with
\* the same bits: 0..2147483647 are themselves, 2147483648..4294967295 are
\* MinInt32..-1, so 4294967295 is -1 and its successor is 0.
MaxInt32 == 2147483647

MinInt32 == -MaxInt32 - 1

\* t.seq++ of Send, at the width of a uint32
NextSeq(s) == IF s = MaxInt32 THEN MinInt32 ELSE s + 1

\* the body of caller c's request frame has ArgLen(c) bytes
ArgLen(c) == c

HdrChunk(mt, s, n) == [part |-> "hdr", msgType |-> mt, seq |-> s, len |-> HeaderSize, bodyLen |-> n]

BodyChunk(mt, s, n) == [part |-> "body", msgType |-> mt, seq |-> s, len |-> n, bodyLen |-> n]

RespEnvelope(f) == [kind |-> "resp", seq |-> f.seq, msgType |-> f.msgType]

ErrEnvelope == [kind |-> "connerr", seq |-> 0, msgType |-> MsgTypeResponse]

NoFrame == [seq |-> 0, msgType |-> MsgTypeResponse]

\* the frames recvLoop may decode: the server writes Response frames only
\* (server.go:172); their seq is the peer's choice
InboundFrames == [seq : Callers, msgType : {MsgTypeResponse}]

CTInit ==
    /\ seq = 0
    /\ sending = FALSE
    /\ pending = EmptyMap
    /\ got = [c \in Callers |-> <<>>]
    /\ sendPc = [c \in Callers |-> "idle"]
    /\ mySeq = [c \in Callers |-> 0]
    /\ wire = <<>>
    /\ connState = "open"
    /\ nInbound = 0
    /\ recvPc = "decode"
    /\ cur = NoFrame
    /\ target = 0
    /\ rangeSnap = EmptyMap
    /\ visited = {}
    /\ hbPc = "wait"
    /\ hbCount = 0

\* a transport whose counter is at the end of its range or has just
\* wrapped (4294967295 or 4294967296 Sends so far), while the first request,
\* seq 1, is still waiting for its response; the chunks written so far are
\* left out of wire
CTWrapped ==
    /\ seq \in {-1, 0}
    /\ sending = FALSE
    /\ pending = MapStore(EmptyMap, 1, 1)
    /\ got = [c \in Callers |-> <<>>]
    /\ sendPc = [c \in Callers |-> IF c = 1 THEN "waiting" ELSE "idle"]
    /\ mySeq = [c \in Callers |-> IF c = 1 THEN 1 ELSE 0]
    /\ wire = <<>>
    /\ connState = "open"
    /\ nInbound = 0
    /\ recvPc = "decode"
    /\ cur = NoFrame
    /\ target = 0
    /\ rangeSnap = EmptyMap
    /\ visited = {}
    /\ hbPc = "wait"
    /\ hbCount = 0

(***************************************************************************)
(* ClientTransport.Send                                                    *)
(***************************************************************************)
\* Send without t.sending.Lock()
SendBegin_NoLock(c, marshalOk) ==
    /\ sendPc[c] = "idle"
    /\ seq' = NextSeq(seq)
    /\ mySeq' = [mySeq EXCEPT ![c] = NextSeq(seq)]
    /\ IF marshalOk
          THEN /\ sending' = TRUE
               /\ pending' = MapStore(pending, NextSeq(seq), c)
               /\ sendPc' = [sendPc EXCEPT ![c] = "hdr"]
          ELSE /\ sending' = FALSE
               /\ pending' = pending
               /\ sendPc' = [sendPc EXCEPT ![c] = "failed"]
    /\ UNCHANGED <<got, wire, connState, nInbound, recvPc,
                   cur, target, rangeSnap, visited, hbPc, hbCount>>
    /\ UNCHANGED nonCTVars

\* Send that writes the frame without having stored the channel
SendBegin_NoStore(c, marshalOk) ==
    /\ sendPc[c] = "idle"
    /\ sending = FALSE
    /\ seq' = NextSeq(seq)
    /\ mySeq' = [mySeq EXCEPT ![c] = NextSeq(seq)]
    /\ IF marshalOk
          THEN /\ sending' = TRUE
               /\ pending' = pending
               /\ sendPc' = [sendPc EXCEPT ![c] = "hdr"]
          ELSE /\ sending' = FALSE
               /\ pending' = pending
               /\ sendPc' = [sendPc EXCEPT ![c] = "failed"]
    /\ UNCHANGED <<got, wire, connState, nInbound, recvPc,
                   cur, target, rangeSnap, visited, hbPc, hbCount>>
    /\ UNCHANGED nonCTVars

\* Lock, seq++, json.Marshal, codec Encode, header construction, then
\* respChan := make(chan, 1) and t.pending.Store(seq, respChan).  A Marshal
\* failure returns the error before the Store (the deferred Unlock runs).
SendBegin(c, marshalOk) ==
    /\ sendPc[c] = "idle"
    /\ sending = FALSE
    /\ seq' = NextSeq(seq)
    /\ mySeq' = [mySeq EXCEPT ![c] = NextSeq(seq)]
    /\ IF marshalOk
          THEN /\ sending' = TRUE
               /\ pending' = MapStore(pending, NextSeq(seq), c)
               /\ sendPc' = [sendPc EXCEPT ![c] = "hdr"]
          ELSE /\ sending' = FALSE
               /\ pending' = pending
               /\ sendPc' = [sendPc EXCEPT ![c] = "failed"]
    /\ UNCHANGED <<got, wire, connState, nInbound, recvPc,
                   cur, target, rangeSnap, visited, hbPc, hbCount>>
    /\ UNCHANGED nonCTVars

\* protocol.Encode: w.Write(buf) of the header; on a write error Send deletes
\* the pending entry and returns the error.
SendWriteHeader(c) ==
    /\ sendPc[c] = "hdr"
    /\ IF connState = "reset"
          THEN /\ pending' = MapDelete(pending, mySeq[c])
               /\ sending' = FALSE
               /\ sendPc' = [sendPc EXCEPT ![c] = "failed"]
               /\ wire' = wire
          ELSE /\ wire' = Append(wire, HdrChunk(MsgTypeRequest, mySeq[c], ArgLen(c)))
               /\ sendPc' = [sendPc EXCEPT ![c] = "body"]
               /\ UNCHANGED <<pending, sending>>
    /\ UNCHANGED <<seq, got, mySeq, connState, nInbound, recvPc, cur,
                   target, rangeSnap, visited, hbPc, hbCount>>
    /\ UNCHANGED nonCTVars

\* a Send whose body write fails and that returns the error without
\* t.pending.Delete(seq)
SendWriteBody_NoDelete(c) ==
    /\ sendPc[c] = "body"
    /\ IF connState = "reset"
          THEN /\ pending' = pending
               /\ sendPc' = [sendPc EXCEPT ![c] = "failed"]
               /\ wire' = wire
          ELSE /\ wire' = Append(wire, BodyChunk(MsgTypeRequest, mySeq[c], ArgLen(c)))
               /\ sendPc' = [sendPc EXCEPT ![c] = "waiting"]
               /\ pending' = pending
    /\ sending' = FALSE
    /\ UNCHANGED <<seq, got, mySeq, connState, nInbound, recvPc, cur,
                   target, rangeSnap, visited, hbPc, hbCount>>
    /\ UNCHANGED nonCTVars

\* protocol.Encode: w.Write(body); then Send returns (seq, respChan, nil).
SendWriteBody(c) ==
    /\ sendPc[c] = "body"
    /\ IF connState = "reset"
          THEN /\ pending' = MapDelete(pending, mySeq[c])
               /\ sendPc' = [sendPc EXCEPT ![c] = "failed"]
               /\ wire' = wire
          ELSE /\ wire' = Append(wire, BodyChunk(MsgTypeRequest, mySeq[c], ArgLen(c)))
               /\ sendPc' = [sendPc EXCEPT ![c] = "waiting"]
               /\ pending' = pending
    /\ sending' = FALSE
    /\ UNCHANGED <<seq, got, mySeq, connState, nInbound, recvPc, cur,
                   target, rangeSnap, visited, hbPc, hbCount>>
    /\ UNCHANGED nonCTVars

(***************************************************************************)
(* ClientTransport.recvLoop and closeAllPending                            *)
(***************************************************************************)
\* protocol.Decode returns the frame f the peer has written
RecvDecode(f) ==
    /\ recvPc = "decode"
    /\ connState = "open"
    /\ nInbound < MaxInbound
    /\ nInbound' = nInbound + 1
    /\ cur' = f
    /\ recvPc' = "lookup"
    /\ UNCHANGED <<seq, sending, pending, got, sendPc, mySeq, wire, connState,
                   target, rangeSnap, visited, hbPc, hbCount>>
    /\ UNCHANGED nonCTVars

\* protocol.Decode returns an error (the peer has closed the connection or
\* written a bad frame, or the connection is broken): closeAllPending begins
\* its Range
RecvDecodeErr ==
    /\ recvPc = "decode"
    /\ recvPc' = "range"
    /\ rangeSnap' = pending
    /\ visited' = {}
    /\ UNCHANGED <<seq, sending, pending, got, sendPc, mySeq, wire, connState,
                   nInbound, cur, target, hbPc, hbCount>>
    /\ UNCHANGED nonCTVars

\* a lookup that ignores the seq and takes any entry of the table
LoadEntry_AnyKey(p, s) == IF DOMAIN p # {} THEN {p[CHOOSE k \in DOMAIN p : TRUE]} ELSE {}

\* the entry recvLoop's LoadAndDelete(s) finds in table p: the set holding
\* the channel stored under s, or the empty set
LoadEntry(p, s) == IF s \in DOMAIN p THEN {p[s]} ELSE {}

\* recvLoop with Load in place of LoadAndDelete
RecvLookup_LoadOnly ==
    /\ recvPc = "lookup"
    /\ IF LoadEntry(pending, cur.seq) # {}
          THEN /\ target' = CHOOSE ch \in LoadEntry(pending, cur.seq) : TRUE
               /\ recvPc' = "deliver"
          ELSE /\ recvPc' = "decode"
               /\ target' = target
    /\ UNCHANGED <<seq, sending, pending, got, sendPc, mySeq, wire, connState, nInbound, cur, rangeSnap, visited, hbPc, hbCount>>
    /\ UNCHANGED nonCTVars

\* t.pending.LoadAndDelete(header.Seq)
RecvLookup ==
    /\ recvPc = "lookup"
    /\ IF LoadEntry(pending, cur.seq) # {}
          THEN /\ target' = CHOOSE ch \in LoadEntry(pending, cur.seq) : TRUE
               /\ pending' = MapDelete(pending, cur.seq)
               /\ recvPc' = "deliver"
          ELSE /\ recvPc' = "decode"
               /\ UNCHANGED <<target, pending>>
    /\ UNCHANGED <<seq, sending, got, sendPc, mySeq, wire, connState, nInbound, cur, rangeSnap, visited, hbPc, hbCount>>
    /\ UNCHANGED nonCTVars

\* channel <- &responseRPC; blocks while the channel's buffer is full
RecvDeliver ==
    /\ recvPc = "deliver"
    /\ Len(got[target]) < ChanCap
    /\ got' = [got EXCEPT ![target] = Append(@, RespEnvelope(cur))]
    /\ recvPc' = "decode"
    /\ UNCHANGED <<seq, sending, pending, sendPc, mySeq, wire, connState, nInbound, cur, target, rangeSnap, visited, hbPc, hbCount>>
    /\ UNCHANGED nonCTVars

\* the keys Range may still visit: those of the table now, and those it had
\* when Range began (sync.Map.Range may reflect any mapping of a key from any
\* point during the call)
RangeKeys == (DOMAIN pending \cup DOMAIN rangeSnap) \ visited

RangeChan(k) == IF k \in DOMAIN pending THEN pending[k] ELSE rangeSnap[k]

\* one callback of t.pending.Range: channel <- &RPCMessage{Error: err.Error()}
RangeVisit(k) ==
    /\ recvPc = "range"
    /\ k \in RangeKeys
    /\ Len(got[RangeChan(k)]) < ChanCap
    /\ got' = [got EXCEPT ![RangeChan(k)] = Append(@, ErrEnvelope)]
    /\ visited' = visited \cup {k}
    /\ UNCHANGED <<seq, sending, pending, sendPc, mySeq, wire, connState, nInbound, recvPc, cur, target, rangeSnap>>
    /\ UNCHANGED <<hbPc, hbCount>>
    /\ UNCHANGED nonCTVars

\* a Range whose callback returns false: it may stop before it has visited
\* every entry
RangeEnd_StopsEarly ==
    /\ recvPc = "range"
    /\ recvPc' = "clear"
    /\ UNCHANGED <<seq, sending, pending, got, sendPc, mySeq, wire, connState,
                   nInbound, cur, target, rangeSnap, visited, hbPc, hbCount>>
    /\ UNCHANGED nonCTVars

\* Range returns: every key that was in the table throughout has been visited
RangeEnd ==
    /\ recvPc = "range"
    /\ (DOMAIN pending \cap DOMAIN rangeSnap) \subseteq visited
    /\ recvPc' = "clear"
    /\ UNCHANGED <<seq, sending, pending, got, sendPc, mySeq, wire, connState,
                   nInbound, cur, target, rangeSnap, visited, hbPc, hbCount>>
    /\ UNCHANGED nonCTVars

\* t.pending.Clear(); recvLoop returns
RecvClear ==
    /\ recvPc = "clear"
    /\ pending' = EmptyMap
    /\ recvPc' = "exited"
    /\ UNCHANGED <<seq, sending, got, sendPc, mySeq, wire, connState, nInbound, cur, target, rangeSnap, visited, hbPc, hbCount>>
    /\ UNCHANGED nonCTVars

(***************************************************************************)
(* ClientTransport.heartbeatLoop                                           *)
(***************************************************************************)
\* a tick of the ticker, then t.sending.Lock()
HbLock ==
    /\ hbPc = "wait"
    /\ hbCount < MaxHeartbeats
    /\ sending = FALSE
    /\ sending' = TRUE
    /\ hbCount' = hbCount + 1
    /\ hbPc' = "hdr"
    /\ UNCHANGED <<seq, pending, got, sendPc, mySeq, wire, connState, nInbound, recvPc, cur, target, rangeSnap, visited>>
    /\ UNCHANGED nonCTVars

\* protocol.Encode(t.conn, header, nil): the header Write and the Write of
\* the nil body, which writes no byte; then t.sending.Unlock().  On a write
\* error the loop returns.
HbWrite ==
    /\ hbPc = "hdr"
    /\ sending' = FALSE
    /\ IF connState = "reset"
          THEN /\ hbPc' = "exited"
               /\ wire' = wire
          ELSE /\ wire' = Append(wire, HdrChunk(MsgTypeHeartbeat, 0, 0))
               /\ hbPc' = "wait"
    /\ UNCHANGED <<seq, pending, got, sendPc, mySeq, connState, nInbound,
                   recvPc, cur, target, rangeSnap, visited, hbCount>>
    /\ UNCHANGED nonCTVars

(***************************************************************************)
(* The peer and the connection                                             *)
(***************************************************************************)
\* the connection breaks: reads and writes fail from now on
ConnReset ==
    /\ connState = "open"
    /\ connState' = "reset"
    /\ UNCHANGED <<seq, sending, pending, got, sendPc, mySeq, wire, nInbound, recvPc, cur, target, rangeSnap, visited, hbPc, hbCount>>
    /\ UNCHANGED nonCTVars

(***************************************************************************)
(* Server.businessHandler                                                  *)
(***************************************************************************)
\* Strings are sequences of characters of this alphabet.
Alphabet == {"A", "m", "."}

\* Server.serviceMap after Register: service "A" with the one method "m".
ServiceMap == [n \in {<<"A">>} |-> {<<"m">>}]

\* the payloads of a request: "ok" unmarshals and the method succeeds, "bad"
\* does not unmarshal into the argument type, "fail" unmarshals and the
\* method returns an error, "nan" unmarshals, the method succeeds and its
\* reply cannot be marshalled
Payloads == {"ok", "bad", "fail", "nan"}

\* the strings over the alphabet of length n
RECURSIVE StringsOfLen(_)
StringsOfLen(n) ==
    IF n = 0 THEN {<<>>}
    ELSE {Append(t, ch) : t \in StringsOfLen(n - 1), ch \in Alphabet}

\* index of the first "." of s, or 0
RECURSIVE FirstDot(_, _)
FirstDot(s, i) ==
    IF i > Len(s) THEN 0
    ELSE IF s[i] = "." THEN i
    ELSE FirstDot(s, i + 1)

\* strings.Split(s, ".")
RECURSIVE SplitDot(_)
SplitDot(s) ==
    IF FirstDot(s, 1) = 0 THEN <<s>>
    ELSE <<SubSeq(s, 1, FirstDot(s, 1) - 1)>> \o SplitDot(SubSeq(s, FirstDot(s, 1) + 1, Len(s)))

\* a returned envelope
Envelope(sm, err, pl) == [panic |-> FALSE, serviceMethod |-> sm, error |-> err, payload |-> pl]

\* a nil pointer dereference: the goroutine panics, nothing recovers it
Panic == [panic |-> TRUE, serviceMethod |-> <<>>, error |-> "", payload |-> "none"]

NoResp == [panic |-> FALSE, serviceMethod |-> <<>>, error |-> "", payload |-> "none"]

\* the lookups svr.serviceMap[serviceName] and svc.method[methodName]: a
\* missing service gives a nil *service and a missing method a nil
\* *methodType, whose fields are then read
LookupFails(split) ==
    \/ split[1] \notin DOMAIN ServiceMap
    \/ split[2] \notin ServiceMap[split[1]]

\* businessHandler(ctx, req)
businessHandler(req) ==
    IF Len(SplitDot(req.serviceMethod)) # 2
      THEN Envelope(<<>>, "invalid service method format", "none")
    ELSE IF LookupFails(SplitDot(req.serviceMethod))
      THEN Panic
    ELSE IF req.payload = "bad"
      THEN Envelope(<<>>, "unmarshal error", "none")
    ELSE IF req.payload = "fail"
      THEN Envelope(req.serviceMethod, "method error", "reply")
    ELSE IF req.payload = "nan"
      THEN Envelope(req.serviceMethod, "", "none")
    ELSE Envelope(req.serviceMethod, "", "reply")

Request(sm, pl) == [serviceMethod |-> sm, payload |-> pl]

\* the request envelopes businessHandler is applied to
BHRequests ==
    {Request(sm, pl) : sm \in UNION {StringsOfLen(n) : n \in 0..MaxMethodLen}, pl \in Payloads}

BHIdle ==
    /\ bhReq = Request(<<>>, "ok")
    /\ bhResp = NoResp
    /\ bhPc = "call"

BHInit ==
    /\ bhReq \in BHRequests
    /\ bhResp = NoResp
    /\ bhPc = "call"

\* one call of the handler; a panic ends the process
BHCall ==
    /\ bhPc = "call"
    /\ bhResp' = businessHandler(bhReq)
    /\ bhPc' = IF businessHandler(bhReq).panic THEN "crashed" ELSE "returned"
    /\ UNCHANGED bhReq
    /\ UNCHANGED nonBHVars

NextBH == BHCall

(***************************************************************************)
(* Server: Serve, handleConn, handleRequest, Shutdown                      *)
(***************************************************************************)
CodecTypeJSON == 0
CodecTypeBinary == 1

Conns == 1..NumConns

\* the names of the registered services
Services == DOMAIN ServiceMap

\* the request envelopes the clients of the server send: a good call and a
\* name without a dot
SrvRequests == {Request(<<"A", ".", "m">>, "ok"), Request(<<"A", "m">>, "ok")}

Frame(mt, ct, s, r) == [msgType |-> mt, codecType |-> ct, seq |-> s, req |-> r]

\* the frames a reader may decode as the n-th frame of the run: a heartbeat (header
\* only), a Response frame, or a Request with either codec
SrvFrames(n) ==
    {Frame(MsgTypeHeartbeat, CodecTypeJSON, 0, Request(<<>>, "ok"))}
    \cup {Frame(MsgTypeResponse, CodecTypeJSON, n, Request(<<"A", ".", "m">>, "ok"))}
    \cup {Frame(MsgTypeRequest, ct, n, r) : ct \in {CodecTypeJSON, CodecTypeBinary}, r \in SrvRequests}

\* len(result) of worker w: the encoded envelope of the handler's result,
\* which holds the serviceMethod the handler returns
ResultLen(w) == 1 + Len(businessHandler(workers[w].req).serviceMethod)

\* a reply header that always names the JSON codec
SrvHdrChunk_AlwaysJSON(w) ==
    [part |-> "hdr", worker |-> w, msgType |-> MsgTypeResponse,
     codecType |-> CodecTypeJSON, seq |-> workers[w].seq,
     len |-> HeaderSize, bodyLen |-> ResultLen(w)]

\* a reply header whose BodyLen counts the header as well
SrvHdrChunk_LenWithHeader(w) ==
    [part |-> "hdr", worker |-> w, msgType |-> MsgTypeResponse,
     codecType |-> workers[w].codecType, seq |-> workers[w].seq,
     len |-> HeaderSize, bodyLen |-> HeaderSize + ResultLen(w)]

\* the reply header as protocol.Encode writes it: BodyLen is
\* uint32(len(result))
SrvHdrChunk(w) ==
    [part |-> "hdr", worker |-> w, msgType |-> MsgTypeResponse,
     codecType |-> workers[w].codecType, seq |-> workers[w].seq,
     len |-> HeaderSize, bodyLen |-> ResultLen(w)]

\* w.Write(result)
SrvBodyChunk(w) ==
    [part |-> "body", worker |-> w, msgType |-> MsgTypeResponse,
     codecType |-> workers[w].codecType, seq |-> workers[w].seq,
     len |-> ResultLen(w), bodyLen |-> ResultLen(w)]

SrvInit ==
    /\ listener = "nil"
    /\ servePc = "init"
    /\ serveResult = "none"
    /\ acceptErr = "none"
    /\ regTodo = {}
    /\ svrRegistry = FALSE
    /\ registry = {}
    /\ shutdown = FALSE
    /\ shPc = "idle"
    /\ shTodo = {}
    /\ shResult = "none"
    /\ done = FALSE
    /\ waiterPc = "none"
    /\ timerFired = FALSE
    /\ wg = 0
    /\ conn = [k \in Conns |-> "none"]
    /\ nFrames = 0
    /\ writeMu = [k \in Conns |-> FALSE]
    /\ srvWire = [k \in Conns |-> <<>>]
    /\ workers = <<>>
    /\ crashed = FALSE

\* the advertiseAddr Serve is given
AdvertiseAddr == "127.0.0.1:8080"

\* the TTL Serve registers with, in seconds
RegisterTTL == 10

\* what the registry holds after Register(serviceName,
\* ServiceInstance{Addr: advertiseAddr}, 10)
Registration(s) == [service |-> s, addr |-> AdvertiseAddr, weight |-> 0, ttl |-> RegisterTTL]

\* Deregister(serviceName, addr)
Deregister(reg, s, addr) == {r \in reg : ~(r.service = s /\ r.addr = addr)}

\* Serve that enters the accept loop before it registers
ServeListen_AcceptFirst(ok, withReg) ==
    /\ ~crashed
    /\ servePc = "init"
    /\ listener' = IF ok THEN "open" ELSE "nil"
    /\ IF ~ok
          THEN /\ servePc' = "returned"
               /\ serveResult' = "err"
               /\ UNCHANGED <<svrRegistry, regTodo>>
          ELSE /\ svrRegistry' = withReg
               /\ regTodo' = IF withReg THEN Services ELSE {}
               /\ servePc' = "accept"
               /\ serveResult' = serveResult
    /\ UNCHANGED <<acceptErr, registry, shutdown, shPc, shTodo, shResult, done, waiterPc,
                   timerFired, wg, conn, nFrames, writeMu, srvWire,
                   workers, crashed>>
    /\ UNCHANGED nonSrvVars

\* Serve up to the accept loop: net.Listen, Chain, the bind error check and
\* the choice of the registry (reg is nil or not)
ServeListen(ok, withReg) ==
    /\ ~crashed
    /\ servePc = "init"
    /\ listener' = IF ok THEN "open" ELSE "nil"
    /\ IF ~ok
          THEN /\ servePc' = "returned"
               /\ serveResult' = "err"
               /\ UNCHANGED <<svrRegistry, regTodo>>
          ELSE /\ svrRegistry' = withReg
               /\ regTodo' = IF withReg THEN Services ELSE {}
               /\ servePc' = IF withReg THEN "register" ELSE "accept"
               /\ serveResult' = serveResult
    /\ UNCHANGED <<acceptErr, registry, shutdown, shPc, shTodo, shResult, done, waiterPc,
                   timerFired, wg, conn, nFrames, writeMu, srvWire,
                   workers, crashed>>
    /\ UNCHANGED nonSrvVars

\* one iteration of Serve's loop over serviceMap: svr.registry.Register
ServeRegister(s) ==
    /\ ~crashed
    /\ servePc = "register"
    /\ s \in regTodo
    /\ registry' = registry \cup {Registration(s)}
    /\ regTodo' = regTodo \ {s}
    /\ servePc' = IF regTodo \ {s} = {} THEN "accept" ELSE "register"
    /\ UNCHANGED <<listener, serveResult, acceptErr, svrRegistry, shutdown, shPc, shTodo,
                   shResult, done, waiterPc, timerFired, wg, conn,
                   nFrames, writeMu, srvWire, workers, crashed>>
    /\ UNCHANGED nonSrvVars

\* a client has connected and listener.Accept() returns its connection, the
\* next one: go svr.handleConn(conn)
ServeAccept(k) ==
    /\ ~crashed
    /\ servePc = "accept"
    /\ listener = "open"
    /\ conn[k] = "none"
    /\ \A j \in 1..(k - 1) : conn[j] # "none"
    /\ conn' = [conn EXCEPT ![k] = "open"]
    /\ UNCHANGED <<listener, servePc, serveResult, acceptErr, regTodo, svrRegistry,
                   registry, shutdown, shPc, shTodo, shResult, done, waiterPc, timerFired,
                   wg, nFrames, writeMu, srvWire, workers, crashed>>
    /\ UNCHANGED nonSrvVars

\* listener.Accept() returns an error: the listener is closed, or (real) the
\* accept itself failed on an open listener
ServeAcceptErr(real) ==
    /\ ~crashed
    /\ servePc = "accept"
    /\ IF real THEN listener = "open" ELSE listener = "closed"
    /\ acceptErr' = IF real THEN "real" ELSE "closed"
    /\ servePc' = "check"
    /\ UNCHANGED <<listener, serveResult, regTodo, svrRegistry, registry, shutdown, shPc,
                   shTodo, shResult, done, waiterPc, timerFired, wg, conn,
                   nFrames, writeMu, srvWire, workers, crashed>>
    /\ UNCHANGED nonSrvVars

\* if svr.shutdown.Load() { return nil } else { return err }
ServeCheck ==
    /\ ~crashed
    /\ servePc = "check"
    /\ serveResult' = IF shutdown THEN "nil" ELSE "err"
    /\ servePc' = "returned"
    /\ UNCHANGED <<listener, acceptErr, regTodo, svrRegistry, registry, shutdown, shPc,
                   shTodo, shResult, done, waiterPc, timerFired, wg, conn,
                   nFrames, writeMu, srvWire, workers, crashed>>
    /\ UNCHANGED nonSrvVars

\* handleConn: protocol.Decode returns the frame f the client has written;
\* a heartbeat is skipped, any other frame gets its goroutine:
\* go svr.handleRequest(header, body, conn, writeMu)
ReaderFrame(k, f) ==
    /\ ~crashed
    /\ conn[k] = "open"
    /\ nFrames < MaxFrames
    /\ nFrames' = nFrames + 1
    /\ workers' = IF f.msgType = MsgTypeHeartbeat
                     THEN workers
                     ELSE Append(workers, [conn |-> k, codecType |-> f.codecType,
                                           seq |-> f.seq, req |-> f.req, pc |-> "spawned"])
    /\ UNCHANGED <<listener, servePc, serveResult, acceptErr, regTodo, svrRegistry,
                   registry, shutdown, shPc, shTodo, shResult, done, waiterPc, timerFired,
                   wg, conn, writeMu, srvWire, crashed>>
    /\ UNCHANGED nonSrvVars

\* handleConn: protocol.Decode returns an error (the client has closed the
\* connection or written a bad frame); break, and the deferred conn.Close()
\* runs
ReaderClose(k) ==
    /\ ~crashed
    /\ conn[k] = "open"
    /\ conn' = [conn EXCEPT ![k] = "closed"]
    /\ UNCHANGED <<listener, servePc, serveResult, acceptErr, regTodo, svrRegistry,
                   registry, shutdown, shPc, shTodo, shResult, done, waiterPc, timerFired,
                   wg, nFrames, writeMu, srvWire, workers, crashed>>
    /\ UNCHANGED nonSrvVars

\* handleConn calling handleRequest without go: a request is handled only
\* when the requests read before it on its connection are finished
WorkerAdd_InOrder(w) ==
    /\ ~crashed
    /\ w \in DOMAIN workers
    /\ workers[w].pc = "spawned"
    /\ \A v \in 1..(w - 1) :
          workers[v].conn = workers[w].conn => workers[v].pc \in {"done", "encfail"}
    /\ wg' = wg + 1
    /\ workers' = [workers EXCEPT ![w].pc = "handler"]
    /\ UNCHANGED <<listener, servePc, serveResult, acceptErr, regTodo, svrRegistry,
                   registry, shutdown, shPc, shTodo, shResult, done, waiterPc, timerFired,
                   conn, nFrames, writeMu, srvWire, crashed>>
    /\ UNCHANGED nonSrvVars

\* handleRequest begins: svr.wg.Add(1)
WorkerAdd(w) ==
    /\ ~crashed
    /\ w \in DOMAIN workers
    /\ workers[w].pc = "spawned"
    /\ wg' = wg + 1
    /\ workers' = [workers EXCEPT ![w].pc = "handler"]
    /\ UNCHANGED <<listener, servePc, serveResult, acceptErr, regTodo, svrRegistry,
                   registry, shutdown, shPc, shTodo, shResult, done, waiterPc, timerFired,
                   conn, nFrames, writeMu, srvWire, crashed>>
    /\ UNCHANGED nonSrvVars

\* c.Decode(body, &msg) and svr.handler(ctx, &msg) return; a panic of the
\* handler ends the process
WorkerHandle(w) ==
    /\ ~crashed
    /\ w \in DOMAIN workers
    /\ workers[w].pc = "handler"
    /\ IF businessHandler(workers[w].req).panic
          THEN /\ crashed' = TRUE
               /\ workers' = [workers EXCEPT ![w].pc = "panicked"]
          ELSE /\ crashed' = crashed
               /\ workers' = [workers EXCEPT ![w].pc = "lock"]
    /\ UNCHANGED <<listener, servePc, serveResult, acceptErr, regTodo, svrRegistry,
                   registry, shutdown, shPc, shTodo, shResult, done, waiterPc, timerFired,
                   wg, conn, nFrames, writeMu, srvWire>>
    /\ UNCHANGED nonSrvVars

\* a worker that writes without taking writeMu
WorkerLockWriteHeader_NoLock(w) ==
    /\ ~crashed
    /\ w \in DOMAIN workers
    /\ workers[w].pc = "lock"
    /\ IF conn[workers[w].conn] = "closed"
          THEN /\ workers' = [workers EXCEPT ![w].pc = "done"]
               /\ wg' = wg - 1
               /\ UNCHANGED <<writeMu, srvWire>>
          ELSE /\ writeMu' = [writeMu EXCEPT ![workers[w].conn] = TRUE]
               /\ srvWire' = [srvWire EXCEPT ![workers[w].conn] = Append(@, SrvHdrChunk(w))]
               /\ workers' = [workers EXCEPT ![w].pc = "body"]
               /\ wg' = wg
    /\ UNCHANGED <<listener, servePc, serveResult, acceptErr, regTodo, svrRegistry,
                   registry, shutdown, shPc, shTodo, shResult, done, waiterPc, timerFired,
                   conn, nFrames, crashed>>
    /\ UNCHANGED nonSrvVars

\* writeMu.Lock(), c.Encode(rpcMessage), the reply header, and the header
\* Write of protocol.Encode; on a write error the worker returns (the
\* deferred Unlock and wg.Done run)
WorkerLockWriteHeader(w) ==
    /\ ~crashed
    /\ w \in DOMAIN workers
    /\ workers[w].pc = "lock"
    /\ writeMu[workers[w].conn] = FALSE
    /\ IF conn[workers[w].conn] = "closed"
          THEN /\ workers' = [workers EXCEPT ![w].pc = "done"]
               /\ wg' = wg - 1
               /\ UNCHANGED <<writeMu, srvWire>>
          ELSE /\ writeMu' = [writeMu EXCEPT ![workers[w].conn] = TRUE]
               /\ srvWire' = [srvWire EXCEPT ![workers[w].conn] = Append(@, SrvHdrChunk(w))]
               /\ workers' = [workers EXCEPT ![w].pc = "body"]
               /\ wg' = wg
    /\ UNCHANGED <<listener, servePc, serveResult, acceptErr, regTodo, svrRegistry,
                   registry, shutdown, shPc, shTodo, shResult, done, waiterPc, timerFired,
                   conn, nFrames, crashed>>
    /\ UNCHANGED nonSrvVars

\* a worker whose Encode fails and that returns without the Unlock
WorkerEncodeFail_NoUnlock(w) ==
    /\ ~crashed
    /\ w \in DOMAIN workers
    /\ workers[w].pc = "lock"
    /\ writeMu[workers[w].conn] = FALSE
    /\ writeMu' = [writeMu EXCEPT ![workers[w].conn] = TRUE]
    /\ workers' = [workers EXCEPT ![w].pc = "encfail"]
    /\ wg' = wg - 1
    /\ UNCHANGED <<listener, servePc, serveResult, acceptErr, regTodo, svrRegistry,
                   registry, shutdown, shPc, shTodo, shResult, done, waiterPc, timerFired,
                   conn, nFrames, srvWire, crashed>>
    /\ UNCHANGED nonSrvVars

\* writeMu.Lock(), c.Encode(rpcMessage) returns an error: the worker logs and
\* returns, the deferred writeMu.Unlock() and svr.wg.Done() run
WorkerEncodeFail(w) ==
    /\ ~crashed
    /\ w \in DOMAIN workers
    /\ workers[w].pc = "lock"
    /\ writeMu[workers[w].conn] = FALSE
    /\ writeMu' = writeMu
    /\ workers' = [workers EXCEPT ![w].pc = "encfail"]
    /\ wg' = wg - 1
    /\ UNCHANGED <<listener, servePc, serveResult, acceptErr, regTodo, svrRegistry,
                   registry, shutdown, shPc, shTodo, shResult, done, waiterPc, timerFired,
                   conn, nFrames, srvWire, crashed>>
    /\ UNCHANGED nonSrvVars

\* a worker that returns after the body Write without svr.wg.Done()
WorkerWriteBody_NoDone(w) ==
    /\ ~crashed
    /\ w \in DOMAIN workers
    /\ workers[w].pc = "body"
    /\ srvWire' = IF conn[workers[w].conn] = "closed"
                     THEN srvWire
                     ELSE [srvWire EXCEPT ![workers[w].conn] = Append(@, SrvBodyChunk(w))]
    /\ writeMu' = [writeMu EXCEPT ![workers[w].conn] = FALSE]
    /\ wg' = wg
    /\ workers' = [workers EXCEPT ![w].pc = "done"]
    /\ UNCHANGED <<listener, servePc, serveResult, acceptErr, regTodo, svrRegistry,
                   registry, shutdown, shPc, shTodo, shResult, done, waiterPc, timerFired,
                   conn, nFrames, crashed>>
    /\ UNCHANGED nonSrvVars

\* the body Write of protocol.Encode, then the deferred writeMu.Unlock() and
\* svr.wg.Done()
WorkerWriteBody(w) ==
    /\ ~crashed
    /\ w \in DOMAIN workers
    /\ workers[w].pc = "body"
    /\ srvWire' = IF conn[workers[w].conn] = "closed"
                     THEN srvWire
                     ELSE [srvWire EXCEPT ![workers[w].conn] = Append(@, SrvBodyChunk(w))]
    /\ writeMu' = [writeMu EXCEPT ![workers[w].conn] = FALSE]
    /\ wg' = wg - 1
    /\ workers' = [workers EXCEPT ![w].pc = "done"]
    /\ UNCHANGED <<listener, servePc, serveResult, acceptErr, regTodo, svrRegistry,
                   registry, shutdown, shPc, shTodo, shResult, done, waiterPc, timerFired,
                   conn, nFrames, crashed>>
    /\ UNCHANGED nonSrvVars

\* Shutdown is called
ShutdownBegin ==
    /\ ~crashed
    /\ shPc = "idle"
    /\ shPc' = "dereg"
    /\ shTodo' = Services
    /\ UNCHANGED <<listener, servePc, serveResult, acceptErr, regTodo, svrRegistry,
                   registry, shutdown, shResult, done, waiterPc, timerFired, wg, conn,
                   nFrames, writeMu, srvWire, workers, crashed>>
    /\ UNCHANGED nonSrvVars

\* one iteration of Shutdown's loop over serviceMap:
\* if svr.registry != nil { svr.registry.Deregister(serviceName, svr.advertiseAddr) }
ShutdownDeregister(s) ==
    /\ ~crashed
    /\ shPc = "dereg"
    /\ s \in shTodo
    /\ registry' = IF svrRegistry THEN Deregister(registry, s, AdvertiseAddr) ELSE registry
    /\ shTodo' = shTodo \ {s}
    /\ shPc' = IF shTodo \ {s} = {} THEN "flag" ELSE "dereg"
    /\ UNCHANGED <<listener, servePc, serveResult, acceptErr, regTodo, svrRegistry,
                   shutdown, shResult, done, waiterPc, timerFired, wg, conn,
                   nFrames, writeMu, srvWire, workers, crashed>>
    /\ UNCHANGED nonSrvVars

\* Shutdown that closes the listener here, before the flag is stored
ShutdownStoreFlag_CloseFirst ==
    /\ ~crashed
    /\ shPc = "flag"
    /\ listener # "nil"
    /\ listener' = "closed"
    /\ shPc' = "close"
    /\ UNCHANGED <<servePc, serveResult, acceptErr, regTodo, svrRegistry, shutdown,
                   registry, shTodo, shResult, done, waiterPc, timerFired, wg, conn,
                   nFrames, writeMu, srvWire, workers, crashed>>
    /\ UNCHANGED nonSrvVars

\* svr.shutdown.Store(true)
ShutdownStoreFlag ==
    /\ ~crashed
    /\ shPc = "flag"
    /\ shutdown' = TRUE
    /\ shPc' = "close"
    /\ UNCHANGED <<listener, servePc, serveResult, acceptErr, regTodo, svrRegistry,
                   registry, shTodo, shResult, done, waiterPc, timerFired, wg, conn,
                   nFrames, writeMu, srvWire, workers, crashed>>
    /\ UNCHANGED nonSrvVars

\* svr.listener.Close(), a nil pointer panic when Serve has set no listener;
\* then done := make(chan struct{}), the wg.Wait goroutine is started and
\* the select with time.After(timeout) is entered
ShutdownClose ==
    /\ ~crashed
    /\ shPc = "close"
    /\ IF listener = "nil"
          THEN /\ crashed' = TRUE
               /\ shPc' = "panicked"
               /\ UNCHANGED <<listener, waiterPc>>
          ELSE /\ listener' = "closed"
               /\ shPc' = "select"
               /\ waiterPc' = "wait"
               /\ crashed' = crashed
    /\ UNCHANGED <<servePc, serveResult, acceptErr, regTodo, svrRegistry, registry,
                   shutdown, shTodo, shResult, done, timerFired, wg, conn,
                   nFrames, writeMu, srvWire, workers>>
    /\ UNCHANGED nonSrvVars

\* svr.wg.Wait() returns when the counter is zero; close(done)
WaiterDone ==
    /\ ~crashed
    /\ waiterPc = "wait"
    /\ wg = 0
    /\ done' = TRUE
    /\ waiterPc' = "exited"
    /\ UNCHANGED <<listener, servePc, serveResult, acceptErr, regTodo, svrRegistry,
                   registry, shutdown, shPc, shTodo, shResult, timerFired, wg, conn,
                   nFrames, writeMu, srvWire, workers, crashed>>
    /\ UNCHANGED nonSrvVars

\* the timer of time.After(timeout) fires
TimerFire ==
    /\ ~crashed
    /\ shPc = "select"
    /\ ~timerFired
    /\ timerFired' = TRUE
    /\ UNCHANGED <<listener, servePc, serveResult, acceptErr, regTodo, svrRegistry,
                   registry, shutdown, shPc, shTodo, shResult, done, waiterPc, wg, conn,
                   nFrames, writeMu, srvWire, workers, crashed>>
    /\ UNCHANGED nonSrvVars

\* a select without the timeout case
SelectReady_DoneOnly == IF done THEN {"ok"} ELSE {}

\* the cases of Shutdown's select that are ready: <-done, <-time.After(timeout)
SelectReady == (IF done THEN {"ok"} ELSE {}) \cup (IF timerFired THEN {"timeout"} ELSE {})

\* select takes one of its ready cases and Shutdown returns
ShutdownSelect(r) ==
    /\ ~crashed
    /\ shPc = "select"
    /\ r \in SelectReady
    /\ shResult' = r
    /\ shPc' = "returned"
    /\ UNCHANGED <<listener, servePc, serveResult, acceptErr, regTodo, svrRegistry,
                   registry, shutdown, shTodo, done, waiterPc, timerFired, wg, conn,
                   nFrames, writeMu, srvWire, workers, crashed>>
    /\ UNCHANGED nonSrvVars

\* the server under traffic: Serve without a registry, accepted connections,
\* their readers and workers
NextSrv ==
    \/ \E ok \in BOOLEAN : ServeListen(ok, FALSE)
    \/ \E k \in Conns : ServeAccept(k)
    \/ \E k \in Conns : \E f \in SrvFrames(nFrames + 1) : ReaderFrame(k, f)
    \/ \E k \in Conns : ReaderClose(k)
    \/ \E w \in 1..MaxFrames : WorkerAdd(w)
    \/ \E w \in 1..MaxFrames : WorkerHandle(w)
    \/ \E w \in 1..MaxFrames : WorkerLockWriteHeader(w)
    \/ \E w \in 1..MaxFrames : WorkerWriteBody(w)

\* the requests sent to a server that is shut down: good calls
ShutFrames(n) == {Frame(MsgTypeRequest, CodecTypeJSON, n, Request(<<"A", ".", "m">>, "ok"))}

\* Serve and Shutdown running concurrently, with or without a registry,
\* while clients connect and send requests
NextShut ==
    \/ \E ok \in BOOLEAN, withReg \in BOOLEAN : ServeListen(ok, withReg)
    \/ \E s \in Services : ServeRegister(s)
    \/ \E k \in 1..ShutConns : ServeAccept(k)
    \/ \E real \in BOOLEAN : ServeAcceptErr(real)
    \/ ServeCheck
    \/ \E k \in Conns : \E f \in ShutFrames(nFrames + 1) : ReaderFrame(k, f)
    \/ \E k \in Conns : ReaderClose(k)
    \/ \E w \in 1..MaxFrames : WorkerAdd(w)
    \/ \E w \in 1..MaxFrames : WorkerHandle(w)
    \/ \E w \in 1..MaxFrames : WorkerLockWriteHeader(w)
    \/ \E w \in 1..MaxFrames : WorkerWriteBody(w)
    \/ ShutdownBegin
    \/ \E s \in Services : ShutdownDeregister(s)
    \/ ShutdownStoreFlag
    \/ ShutdownClose
    \/ WaiterDone
    \/ TimerFire
    \/ \E r \in {"ok", "timeout"} : ShutdownSelect(r)

\* Serve and Shutdown running concurrently while the clients send their
\* requests before Shutdown's waiter begins its wg.Wait() and none after:
\* every frame a reader dispatches was read before the wait began
NextEarly ==
    \/ \E ok \in BOOLEAN, withReg \in BOOLEAN : ServeListen(ok, withReg)
    \/ \E s \in Services : ServeRegister(s)
    \/ \E k \in 1..ShutConns : ServeAccept(k)
    \/ \E real \in BOOLEAN : ServeAcceptErr(real)
    \/ ServeCheck
    \/ \E k \in Conns : \E f \in ShutFrames(nFrames + 1) :
          waiterPc = "none" /\ ReaderFrame(k, f)
    \/ \E k \in Conns : ReaderClose(k)
    \/ \E w \in 1..MaxFrames : WorkerAdd(w)
    \/ \E w \in 1..MaxFrames : WorkerHandle(w)
    \/ \E w \in 1..MaxFrames : WorkerLockWriteHeader(w)
    \/ \E w \in 1..MaxFrames : WorkerWriteBody(w)
    \/ ShutdownBegin
    \/ \E s \in Services : ShutdownDeregister(s)
    \/ ShutdownStoreFlag
    \/ ShutdownClose
    \/ WaiterDone
    \/ TimerFire
    \/ \E r \in {"ok", "timeout"} : ShutdownSelect(r)

\* the frames the clients of one server write on their connections: a
\* heartbeat and a good call
WkFrames(n) ==
    {Frame(MsgTypeHeartbeat, CodecTypeJSON, 0, Request(<<>>, "ok"))}
    \cup {Frame(MsgTypeRequest, CodecTypeJSON, n, Request(<<"A", ".", "m">>, "ok"))}

\* a serving server, its readers and the workers of the requests they read,
\* every exit path of a worker included
NextWk ==
    \/ ServeListen(TRUE, FALSE)
    \/ \E k \in Conns : ServeAccept(k)
    \/ \E k \in Conns : \E f \in WkFrames(nFrames + 1) : ReaderFrame(k, f)
    \/ \E k \in Conns : ReaderClose(k)
    \/ \E w \in 1..MaxFrames : WorkerAdd(w)
    \/ \E w \in 1..MaxFrames : WorkerHandle(w)
    \/ \E w \in 1..MaxFrames : WorkerLockWriteHeader(w)
    \/ \E w \in 1..MaxFrames : WorkerEncodeFail(w)
    \/ \E w \in 1..MaxFrames : WorkerWriteBody(w)

NextCT ==
    \/ \E c \in Callers, ok \in BOOLEAN : SendBegin(c, ok)
    \/ \E c \in Callers : SendWriteHeader(c)
    \/ \E c \in Callers : SendWriteBody(c)
    \/ \E f \in InboundFrames : RecvDecode(f)
    \/ RecvDecodeErr
    \/ RecvLookup
    \/ RecvDeliver
    \/ \E k \in Callers : RangeVisit(k)
    \/ RangeEnd
    \/ RecvClear
    \/ HbLock
    \/ HbWrite
    \/ ConnReset

(***************************************************************************)
(* The client facade: Client.getTransport and Client.Call.                 *)
(***************************************************************************)
Calls == 1..NumCalls

Addrs == 1..NumAddrs

\* the transports of the pools whose reader has exited
BrokenTransports ==
    {<<a, i>> \in Addrs \X (1..PoolSize) :
        i \in DOMAIN transports[a] /\ transports[a][i] = "broken"}

\* the pool getTransport builds when the first `dials` calls of net.Dial
\* succeed: the entries after a failed Dial stay nil
NewPool(dials) == [i \in 1..PoolSize |-> IF i <= dials THEN "open" ELSE "nil"]

\* NewClient
FacInit ==
    /\ counter = 0
    /\ transports = [a \in Addrs |-> <<>>]
    /\ callPc = [c \in Calls |-> "idle"]
    /\ callAddr = [c \in Calls |-> 1]
    /\ callN = [c \in Calls |-> 0]
    /\ callT = [c \in Calls |-> 0]
    /\ callBroken = [c \in Calls |-> {}]
    /\ made = [a \in Addrs |-> 0]
    /\ dialled = [a \in Addrs |-> 0]

\* Call up to getTransport's atomic.AddUint64: Discover and Pick give the
\* address a
CallBegin(c, a) ==
    /\ callPc[c] = "idle"
    /\ counter' = counter + 1
    /\ callN' = [callN EXCEPT ![c] = counter + 1]
    /\ callAddr' = [callAddr EXCEPT ![c] = a]
    /\ callBroken' = [callBroken EXCEPT ![c] = BrokenTransports]
    /\ callPc' = [callPc EXCEPT ![c] = "get"]
    /\ UNCHANGED <<transports, callT, made, dialled>>
    /\ UNCHANGED nonFacVars

\* getTransport that makes and fills a pool whether or not the map has one
GetTransport_NoMapCheck(c, dials) ==
    /\ callPc[c] = "get"
    /\ LET a == callAddr[c]
       IN  /\ transports' = [transports EXCEPT ![a] = NewPool(dials)]
           /\ made' = [made EXCEPT ![a] = @ + 1]
           /\ dialled' = [dialled EXCEPT ![a] = @ + dials]
           /\ IF dials < PoolSize
                 THEN /\ callPc' = [callPc EXCEPT ![c] = "err"]
                      /\ callT' = callT
                 ELSE /\ callPc' = [callPc EXCEPT ![c] = "send"]
                      /\ callT' = [callT EXCEPT ![c] = (callN[c] % PoolSize) + 1]
    /\ UNCHANGED <<counter, callAddr, callN, callBroken>>
    /\ UNCHANGED nonFacVars

\* the rest of getTransport, c.mu held from the map read to the end of the
\* pool creation: an existing pool is used as it is; a new pool is stored
\* in the map before its connections are dialled
GetTransport(c, dials) ==
    /\ callPc[c] = "get"
    /\ LET a == callAddr[c]
           ok == transports[a] # <<>>
       IN  /\ ok => dials = PoolSize
           /\ transports' = IF ok THEN transports
                                  ELSE [transports EXCEPT ![a] = NewPool(dials)]
           /\ made' = IF ok THEN made ELSE [made EXCEPT ![a] = @ + 1]
           /\ dialled' = IF ok THEN dialled ELSE [dialled EXCEPT ![a] = @ + dials]
           /\ IF ~ok /\ dials < PoolSize
                 THEN /\ callPc' = [callPc EXCEPT ![c] = "err"]
                      /\ callT' = callT
                 ELSE /\ callPc' = [callPc EXCEPT ![c] = "send"]
                      /\ callT' = [callT EXCEPT ![c] = (callN[c] % PoolSize) + 1]
    /\ UNCHANGED <<counter, callAddr, callN, callBroken>>
    /\ UNCHANGED nonFacVars

\* t.Send(serviceMethod, args) on the transport getTransport returned; a nil
\* transport is dereferenced
CallSend(c) ==
    /\ callPc[c] = "send"
    /\ callPc' = [callPc EXCEPT ![c] =
                     IF transports[callAddr[c]][callT[c]] = "nil" THEN "panicked" ELSE "sent"]
    /\ UNCHANGED <<counter, transports, callAddr, callN, callT, callBroken, made, dialled>>
    /\ UNCHANGED nonFacVars

\* the reader of a pooled transport exits on a decode or I/O error
TransportBreak(a, i) ==
    /\ i \in DOMAIN transports[a]
    /\ transports[a][i] = "open"
    /\ transports' = [transports EXCEPT ![a][i] = "broken"]
    /\ UNCHANGED <<counter, callPc, callAddr, callN, callT, callBroken, made, dialled>>
    /\ UNCHANGED nonFacVars

NextFac ==
    \/ \E c \in Calls, a \in Addrs : CallBegin(c, a)
    \/ \E c \in Calls, dials \in 0..PoolSize : GetTransport(c, dials)
    \/ \E c \in Calls : CallSend(c)
    \/ \E a \in Addrs, i \in 1..PoolSize : TransportBreak(a, i)

(***************************************************************************)
(* The middleware chain: Chain, Server.Use and its use by Serve.           *)
(***************************************************************************)
Mws == {"logging", "timeout", "ratelimit"}

\* the innermost handler, svr.businessHandler
BusinessHandler == <<"businessHandler">>

\* mw(next): the handler that runs middleware mw around next
Wrap(mw, next) == <<mw, next>>

RECURSIVE Chain_FirstInnermost(_, _)
\* a Chain whose loop runs from the first middleware to the last
Chain_FirstInnermost(ms, next) ==
    IF ms = <<>> THEN next ELSE Chain_FirstInnermost(Tail(ms), Wrap(Head(ms), next))

RECURSIVE Chain(_, _)
\* Chain(ms...)(next): for i := len(ms)-1; i >= 0; i-- { next = ms[i](next) }
Chain(ms, next) ==
    IF ms = <<>> THEN next
                 ELSE Chain(SubSeq(ms, 1, Len(ms) - 1), Wrap(ms[Len(ms)], next))

RECURSIVE Enter(_)
\* the layers a request enters when handler h is called: every middleware
\* here calls next
Enter(h) == IF Len(h) = 1 THEN h ELSE <<h[1]>> \o Enter(h[2])

\* NewServer
MwInit ==
    /\ middlewares = <<>>
    /\ handler = <<>>
    /\ reqTrace = <<>>

\* svr.Use(mw)
Use(mw) ==
    /\ Len(middlewares) < MaxMws
    /\ middlewares' = Append(middlewares, mw)
    /\ UNCHANGED <<handler, reqTrace>>
    /\ UNCHANGED nonMwVars

\* Serve: svr.handler = middleware.Chain(svr.middlewares...)(svr.businessHandler)
ServeChain ==
    /\ handler = <<>>
    /\ handler' = Chain(middlewares, BusinessHandler)
    /\ UNCHANGED <<middlewares, reqTrace>>
    /\ UNCHANGED nonMwVars

\* handleRequest: svr.handler(ctx, msg)
HandleCall ==
    /\ handler # <<>>
    /\ reqTrace' = Enter(handler)
    /\ UNCHANGED <<middlewares, handler>>
    /\ UNCHANGED nonMwVars

NextMw ==
    \/ \E mw \in Mws : Use(mw)
    \/ ServeChain
    \/ HandleCall

(***************************************************************************)
(* RateLimitMiddleware(r, burst) and its token bucket.                     *)
(***************************************************************************)
\* RateLimitMiddleware(1, 2): one token per second, bucket of two
Rate == 1

Burst == 2

Min(a, b) == IF a < b THEN a ELSE b

\* a handler whose limiter is made anew for every request: a full bucket
Available_PerRequest == Burst * TicksPerSec

\* the tokens of the shared limiter at time now: those left at the last
\* update plus Rate per second since, at most Burst
Available == Min(Burst * TicksPerSec, limTokens + (now - limLast) * Rate)

\* the envelope the handler returns: next's (the echo handler's) or the error
RlEnvelope(pass) == [error |-> IF pass THEN "" ELSE "rate limit exceeded"]

\* rate.NewLimiter(rate.Limit(r), burst): the bucket starts full
RlInit ==
    /\ now = 0
    /\ limTokens = Burst * TicksPerSec
    /\ limLast = 0
    /\ rlCalls = <<>>

\* time passes
RlTick ==
    /\ now < MaxTicks
    /\ now' = now + 1
    /\ UNCHANGED <<limTokens, limLast, rlCalls>>
    /\ UNCHANGED nonRlVars

\* one request through the handler: limiter.Allow() takes a whole token if
\* there is one, and only then next(ctx, req) is called
RlCall ==
    /\ Len(rlCalls) < MaxRlCalls
    /\ LET pass == Available >= TicksPerSec
       IN  /\ limTokens' = IF pass THEN Available - TicksPerSec ELSE limTokens
           /\ limLast' = IF pass THEN now ELSE limLast
           /\ rlCalls' = Append(rlCalls, [at |-> now, next |-> pass, resp |-> RlEnvelope(pass),
                                          empty |-> Available < TicksPerSec])
    /\ now' = now
    /\ UNCHANGED nonRlVars

NextRl ==
    \/ RlTick
    \/ RlCall

(***************************************************************************)
(* TimeOutMiddleware(timeout).                                             *)
(***************************************************************************)
ToReqs == 1..NumToReqs

\* done := make(chan *message.RPCMessage, 1)
DoneCap == 1

\* the envelopes next may return
DownstreamEnvelopes == {[error |-> ""], [error |-> "boom"]}

TimeoutEnvelope == [error |-> "request timed out"]

NoEnvelope == [error |-> "none"]

\* a select that answers every request with the timeout error
SelectResult_AlwaysTimeout(r, which) == TimeoutEnvelope

\* what the select returns: the envelope received from done, or the error
SelectResult(r, which) == IF which = "done" THEN Head(toDone[r]) ELSE TimeoutEnvelope

ToInit ==
    /\ toPc = [r \in ToReqs |-> "idle"]
    /\ toResp = [r \in ToReqs |-> NoEnvelope]
    /\ toDone = [r \in ToReqs |-> <<>>]
    /\ toTimer = [r \in ToReqs |-> FALSE]
    /\ dsPc = [r \in ToReqs |-> "none"]
    /\ dsResult = [r \in ToReqs |-> NoEnvelope]

\* the handler is called: context.WithTimeout, make(chan, 1) and
\* go func() { done <- next(ctx, req) }(); next will return e
ToCall(r, e) ==
    /\ toPc[r] = "idle"
    /\ toPc' = [toPc EXCEPT ![r] = "select"]
    /\ dsPc' = [dsPc EXCEPT ![r] = "running"]
    /\ dsResult' = [dsResult EXCEPT ![r] = e]
    /\ UNCHANGED <<toResp, toDone, toTimer>>
    /\ UNCHANGED nonToVars

\* the timeout elapses: ctx.Done() is closed
ToDeadline(r) ==
    /\ toPc[r] # "idle"
    /\ ~toTimer[r]
    /\ toTimer' = [toTimer EXCEPT ![r] = TRUE]
    /\ UNCHANGED <<toPc, toResp, toDone, dsPc, dsResult>>
    /\ UNCHANGED nonToVars

\* next(ctx, req) returns in the goroutine (nothing cancels it)
DsReturn(r) ==
    /\ dsPc[r] = "running"
    /\ dsPc' = [dsPc EXCEPT ![r] = "send"]
    /\ UNCHANGED <<toPc, toResp, toDone, toTimer, dsResult>>
    /\ UNCHANGED nonToVars

\* done <- result: blocks while the channel is full
DsSend(r) ==
    /\ dsPc[r] = "send"
    /\ Len(toDone[r]) < DoneCap
    /\ toDone' = [toDone EXCEPT ![r] = Append(toDone[r], dsResult[r])]
    /\ dsPc' = [dsPc EXCEPT ![r] = "exited"]
    /\ UNCHANGED <<toPc, toResp, toTimer, dsResult>>
    /\ UNCHANGED nonToVars

\* the select takes a ready case (either one when both are ready) and the
\* handler returns
ToSelect(r, which) ==
    /\ toPc[r] = "select"
    /\ IF which = "done" THEN toDone[r] # <<>> ELSE toTimer[r]
    /\ toResp' = [toResp EXCEPT ![r] = SelectResult(r, which)]
    /\ toDone' = [toDone EXCEPT ![r] = IF which = "done" THEN Tail(toDone[r]) ELSE toDone[r]]
    /\ toPc' = [toPc EXCEPT ![r] = "returned"]
    /\ UNCHANGED <<toTimer, dsPc, dsResult>>
    /\ UNCHANGED nonToVars

NextTo ==
    \/ \E r \in ToReqs, e \in DownstreamEnvelopes : ToCall(r, e)
    \/ \E r \in ToReqs : ToDeadline(r)
    \/ \E r \in ToReqs : DsReturn(r)
    \/ \E r \in ToReqs : DsSend(r)
    \/ \E r \in ToReqs, which \in {"done", "timeout"} : ToSelect(r, which)

(***************************************************************************)
(* RetryMiddleware(maxRetries, baseDelay).                                 *)
(***************************************************************************)
\* strings are sequences of characters
StrTimeout == <<"t", "i", "m", "e", "o", "u", "t">>

StrConnRefused == <<"c", "o", "n", "n", "e", "c", "t", "i", "o", "n", " ", "r", "e", "f", "u", "s", "e", "d">>

\* the errors of the responses of next: none, the two retryable texts alone
\* and inside a longer text, and two others
RetryErrors ==
    { <<>>,
      StrTimeout,
      StrConnRefused,
      <<"i", "/", "o", " ">> \o StrTimeout,
      <<"d", "i", "a", "l", ":", " ">> \o StrConnRefused \o <<"!">>,
      <<"r", "e", "q", "u", "e", "s", "t", " ", "t", "i", "m", "e", "d", " ", "o", "u", "t">>,
      <<"b", "o", "o", "m">> }

\* strings.Contains(s, sub)
Contains(s, sub) ==
    \E i \in 0..(Len(s) - Len(sub)) : SubSeq(s, i + 1, i + Len(sub)) = sub

\* a Retry that retries after every error
Retryable_AnyError(err) == err # <<>>

\* the error makes the loop call next again
Retryable(err) == Contains(err, StrTimeout) \/ Contains(err, StrConnRefused)

RECURSIVE RetryLoop(_, _, _, _)
\* for i := 0; i < maxRetries; i++ { ... }; return rpcMessage: msg is the
\* k-th response of next
RetryLoop(max, resps, i, k) ==
    IF i >= max THEN [calls |-> k, resp |-> resps[k]]
    ELSE IF resps[k] = <<>> THEN [calls |-> k, resp |-> resps[k]]
    ELSE IF Retryable(resps[k]) THEN RetryLoop(max, resps, i + 1, k + 1)
    ELSE [calls |-> k, resp |-> resps[k]]

\* the handler: rpcMessage := next(ctx, req), then the loop
Retry(max, resps) == RetryLoop(max, resps, 0, 1)

RtIdle ==
    /\ rtMax = 0
    /\ rtNext = [k \in 1..1 |-> <<>>]
    /\ rtCalls = 0
    /\ rtResp = <<>>
    /\ rtPc = "call"

RtInit ==
    /\ rtMax \in 0..MaxRetries
    /\ rtNext \in [1..(MaxRetries + 1) -> RetryErrors]
    /\ rtCalls = 0
    /\ rtResp = <<>>
    /\ rtPc = "call"

\* one request through the Retry handler
RtCall ==
    /\ rtPc = "call"
    /\ rtCalls' = Retry(rtMax, rtNext).calls
    /\ rtResp' = Retry(rtMax, rtNext).resp
    /\ rtPc' = "returned"
    /\ UNCHANGED <<rtMax, rtNext>>
    /\ UNCHANGED nonRtVars

NextRt == RtCall

(***************************************************************************)
(* Byte strings.  A byte string is a sequence of runs [b, n]: n >= 1 bytes *)
(* of value b, adjacent runs having different values, so that equal byte   *)
(* strings are equal sequences and a body of a megabyte stays small.       *)
(***************************************************************************)
Run(b, n) == [b |-> b, n |-> n]

RECURSIVE BLen(_)
\* len(x)
BLen(x) == IF x = <<>> THEN 0 ELSE x[1].n + BLen(Tail(x))

\* the bytes of x followed by the bytes of y
Cat(x, y) ==
    IF x = <<>> THEN y
    ELSE IF y = <<>> THEN x
    ELSE IF x[Len(x)].b = y[1].b
            THEN SubSeq(x, 1, Len(x) - 1) \o <<Run(y[1].b, x[Len(x)].n + y[1].n)>> \o Tail(y)
            ELSE x \o y

RECURSIVE FromBytes(_)
\* the byte string of a sequence of byte values
FromBytes(bs) == IF bs = <<>> THEN <<>> ELSE Cat(<<Run(Head(bs), 1)>>, FromBytes(Tail(bs)))

RECURSIVE ToBytes(_)
\* the sequence of the byte values of x
ToBytes(x) ==
    IF x = <<>> THEN <<>>
    ELSE <<x[1].b>> \o ToBytes(IF x[1].n = 1 THEN Tail(x)
                                             ELSE <<Run(x[1].b, x[1].n - 1)>> \o Tail(x))

RECURSIVE Take(_, _)
\* the first n bytes of x (all of x when it is shorter)
Take(x, n) ==
    IF n = 0 \/ x = <<>> THEN <<>>
    ELSE IF x[1].n <= n THEN <<x[1]>> \o Take(Tail(x), n - x[1].n)
    ELSE <<Run(x[1].b, n)>>

RECURSIVE Drop(_, _)
\* x without its first n bytes
Drop(x, n) ==
    IF n = 0 \/ x = <<>> THEN x
    ELSE IF x[1].n <= n THEN Drop(Tail(x), n - x[1].n)
    ELSE <<Run(x[1].b, x[1].n - n)>> \o Tail(x)

(***************************************************************************)
(* The frame protocol: protocol.Encode and protocol.Decode.                *)
(***************************************************************************)
MagicNumber == 109

MagicByte2 == 114

MagicByte3 == 112

Version == 1

\* the low 31 bits of a uint32 (held as in NextSeq) and its top bit as the
\* top bit of its first byte
Low31(v) == IF v < 0 THEN v - MinInt32 ELSE v

TopBit(v) == IF v < 0 THEN 128 ELSE 0

\* a PutUint32 that writes the least significant byte first
PutUint32_LittleEndian(v) ==
    << Low31(v) % 256, (Low31(v) \div 256) % 256, (Low31(v) \div 65536) % 256,
       TopBit(v) + Low31(v) \div 16777216 >>

\* binary.BigEndian.PutUint32
PutUint32(v) ==
    << TopBit(v) + Low31(v) \div 16777216, (Low31(v) \div 65536) % 256,
       (Low31(v) \div 256) % 256, Low31(v) % 256 >>

\* binary.BigEndian.Uint32
Uint32(b) ==
    LET low == (b[1] % 128) * 16777216 + b[2] * 65536 + b[3] * 256 + b[4]
    IN  IF b[1] >= 128 THEN MinInt32 + low ELSE low

Header(ct, mt, s, n) == [codecType |-> ct, msgType |-> mt, seq |-> s, bodyLen |-> n]

NoHeader == Header(0, 0, 0, 0)

\* the 14 bytes Encode puts into buf
HeaderBytes(h) ==
    <<MagicNumber, MagicByte2, MagicByte3, Version, h.codecType, h.msgType>>
        \o PutUint32(h.seq) \o PutUint32(h.bodyLen)

\* Encode(w, h, body) on a writer that takes every byte: the bytes written,
\* the header and then the body
Encode(h, body) == Cat(FromBytes(HeaderBytes(h)), body)

\* io.ReadFull's error when the reader ends after `have` bytes, before the
\* buffer is full
ShortReadErr(have) == IF have = 0 THEN "EOF" ELSE "unexpected EOF"

\* a validation that looks at the version before the magic number
Validate_VersionFirst(hb) ==
    IF hb[4] # Version THEN "unsupported version"
    ELSE IF hb[1] # MagicNumber \/ hb[2] # MagicByte2 \/ hb[3] # MagicByte3
            THEN "invalid magic number"
    ELSE IF hb[5] # CodecTypeJSON /\ hb[5] # CodecTypeBinary THEN "unsupported codec type"
    ELSE IF hb[6] # MsgTypeRequest /\ hb[6] # MsgTypeResponse /\ hb[6] # MsgTypeHeartbeat
            THEN "unsupported message type"
    ELSE ""

\* steps 2 to 5 of Decode on the 14 header bytes: the error, or ""
Validate(hb) ==
    IF hb[1] # MagicNumber \/ hb[2] # MagicByte2 \/ hb[3] # MagicByte3
        THEN "invalid magic number"
    ELSE IF hb[4] # Version THEN "unsupported version"
    ELSE IF hb[5] # CodecTypeJSON /\ hb[5] # CodecTypeBinary THEN "unsupported codec type"
    ELSE IF hb[6] # MsgTypeRequest /\ hb[6] # MsgTypeResponse /\ hb[6] # MsgTypeHeartbeat
            THEN "unsupported message type"
    ELSE ""

DecodeResult(e, h, body, n) == [err |-> e, header |-> h, body |-> body, read |-> n]

\* Decode(r) on a reader holding the bytes of stream: the error, the header
\* and the body returned, and the number of bytes read
Decode(stream) ==
    IF BLen(stream) < HeaderSize
        THEN DecodeResult(ShortReadErr(BLen(stream)), NoHeader, <<>>, BLen(stream))
    ELSE LET hb == ToBytes(Take(stream, HeaderSize))
             rest == Drop(stream, HeaderSize)
             bodyLen == Uint32(SubSeq(hb, 11, 14))
         IN  IF Validate(hb) # ""
                 THEN DecodeResult(Validate(hb), NoHeader, <<>>, HeaderSize)
             ELSE IF bodyLen < 0 \/ BLen(rest) < bodyLen
                 THEN DecodeResult(ShortReadErr(BLen(rest)), NoHeader, <<>>,
                                   HeaderSize + BLen(rest))
             ELSE DecodeResult("", Header(hb[5], hb[6], Uint32(SubSeq(hb, 7, 10)), bodyLen),
                               Take(rest, bodyLen), HeaderSize + bodyLen)

\* 1024*1024
MiB == 1048576

\* the seq values of the round trip: small ones, one per byte position, and
\* 2147483647, 2147483648 and 4294967295
ProtoSeqs == {0, 1, 255, 256, 12345, 65536, 16777216, MaxInt32, MinInt32, -1}

RECURSIVE BytesOfLen(_)
\* the sequences of n byte values out of 0, 109 and 255
BytesOfLen(n) ==
    IF n = 0 THEN {<<>>}
             ELSE {<<b>> \o t : b \in {0, 109, 255}, t \in BytesOfLen(n - 1)}

\* the bodies: every short one, and two of a megabyte
ProtoBodies ==
    {FromBytes(bs) : bs \in UNION {BytesOfLen(n) : n \in 0..MaxBodyLen}}
        \cup {<<Run(0, MiB)>>, <<Run(109, 1), Run(0, MiB - 2), Run(255, 1)>>}

NoResult == DecodeResult("none", NoHeader, <<>>, 0)

PrIdle ==
    /\ prHeader = NoHeader
    /\ prBody = <<>>
    /\ prStream = <<>>
    /\ prOut = NoResult
    /\ prPc = "idle"

\* a valid header and its body are about to be encoded
PrInit ==
    /\ prBody \in ProtoBodies
    /\ prHeader \in {Header(ct, mt, s, BLen(prBody)) :
                        ct \in {CodecTypeJSON, CodecTypeBinary},
                        mt \in {MsgTypeRequest, MsgTypeResponse, MsgTypeHeartbeat},
                        s \in ProtoSeqs}
    /\ prStream = <<>>
    /\ prOut = NoResult
    /\ prPc = "encode"

\* protocol.Encode(w, &header, body)
PrEncode ==
    /\ prPc = "encode"
    /\ prStream' = Encode(prHeader, prBody)
    /\ prPc' = "decode"
    /\ UNCHANGED <<prHeader, prBody, prOut>>
    /\ UNCHANGED nonPrVars

\* protocol.Decode(r)
PrDecode ==
    /\ prPc = "decode"
    /\ prOut' = Decode(prStream)
    /\ prPc' = "decoded"
    /\ UNCHANGED <<prHeader, prBody, prStream>>
    /\ UNCHANGED nonPrVars

NextPr ==
    \/ PrEncode
    \/ PrDecode

\* the streams a peer may send: 14 header bytes with right or wrong magic,
\* version, codec type and message type, seq 1, a bodyLen, and two body
\* bytes; whole, or cut off after the header, inside it, or empty
CraftedStreams ==
    {Take(FromBytes(<<m1, m2, m3, v, ct, mt>> \o PutUint32(1) \o PutUint32(n) \o <<7, 7>>), cut) :
        m1 \in {MagicNumber, 0}, m2 \in {MagicByte2, 0}, m3 \in {MagicByte3, 0},
        v \in {Version, 0, 255}, ct \in {CodecTypeJSON, CodecTypeBinary, 2, 255},
        mt \in {MsgTypeRequest, MsgTypeResponse, MsgTypeHeartbeat, 3, 255},
        n \in {0, 2, 3}, cut \in {HeaderSize + 2, HeaderSize, HeaderSize - 1, 0}}

\* Decode is about to read a stream the peer has written
PrCrafted ==
    /\ prHeader = NoHeader
    /\ prBody = <<>>
    /\ prStream \in CraftedStreams
    /\ prOut = NoResult
    /\ prPc = "decode"

NextDec == PrDecode

(***************************************************************************)
(* The envelope codecs: BinaryCodec and JSONCodec over message.RPCMessage. *)
(* The three fields are byte strings; PayloadNil tells a nil Payload from  *)
(* an empty one.                                                           *)
(***************************************************************************)
RPCMessage(sm, e, p, isNil) ==
    [ServiceMethod |-> sm, Error |-> e, Payload |-> p, PayloadNil |-> isNil]

\* the RPCMessage a decode starts from
ZeroMessage == RPCMessage(<<>>, <<>>, <<>>, TRUE)

\* a decode that came back with nil and msg, one that came back with an
\* error, and one that did not come back
Decoded(msg) == [panic |-> FALSE, err |-> "", msg |-> msg]

Failed(err) == [panic |-> FALSE, err |-> err, msg |-> ZeroMessage]

Panicked == [panic |-> TRUE, err |-> "", msg |-> ZeroMessage]

\* the number of values of a uint16
Uint16Range == 65536

\* binary.BigEndian.PutUint16
PutUint16(v) == << v \div 256, v % 256 >>

\* binary.BigEndian.Uint16
Uint16(b) == b[1] * 256 + b[2]

\* data[lo:hi] of a slice whose capacity is its length
Slice(data, lo, hi) == Take(Drop(data, lo), hi - lo)

\* BinaryCodec.Encode: uint16(len) and uint32(len) keep the low bits
BinaryEncode(msg) ==
    Cat(FromBytes(PutUint16(BLen(msg.ServiceMethod) % Uint16Range)),
    Cat(msg.ServiceMethod,
    Cat(FromBytes(PutUint32(BLen(msg.Payload))),
    Cat(msg.Payload,
    Cat(FromBytes(PutUint16(BLen(msg.Error) % Uint16Range)),
        msg.Error)))))

\* BinaryCodec.Decode into a fresh RPCMessage; a slice expression that
\* reaches past the data panics
BinaryDecode(data) ==
    IF BLen(data) < 2 THEN Panicked
    ELSE
    LET strLen == Uint16(ToBytes(Slice(data, 0, 2)))
        o1 == 2 + strLen
    IN  IF o1 + 4 > BLen(data) THEN Panicked
        ELSE
        LET payloadLen == Uint32(ToBytes(Slice(data, o1, o1 + 4)))
            o2 == o1 + 4
        IN  IF payloadLen < 0 \/ payloadLen > BLen(data) - o2 THEN Panicked
            ELSE
            LET o3 == o2 + payloadLen
            IN  IF o3 + 2 > BLen(data) THEN Panicked
                ELSE
                LET errLen == Uint16(ToBytes(Slice(data, o3, o3 + 2)))
                    o4 == o3 + 2
                IN  IF o4 + errLen > BLen(data) THEN Panicked
                    ELSE Decoded(RPCMessage(Slice(data, o1 - strLen, o1),
                                            Slice(data, o4, o4 + errLen),
                                            Slice(data, o2, o3), FALSE))

(***************************************************************************)
(* encoding/json as JSONCodec uses it, on sequences of byte values.        *)
(***************************************************************************)
\* s[i], or -1 past the end
At(s, i) == IF i >= 1 /\ i <= Len(s) THEN s[i] ELSE -1

\* s[i] is a byte between lo and hi
Between(s, i, lo, hi) == At(s, i) >= lo /\ At(s, i) <= hi

\* utf8.DecodeRune: the size of the rune s starts with, 0 for an invalid
\* encoding
RuneLen(s) ==
    IF Between(s, 1, 0, 127) THEN 1
    ELSE IF Between(s, 1, 194, 223) /\ Between(s, 2, 128, 191) THEN 2
    ELSE IF /\ \/ At(s, 1) = 224 /\ Between(s, 2, 160, 191)
               \/ Between(s, 1, 225, 236) /\ Between(s, 2, 128, 191)
               \/ At(s, 1) = 237 /\ Between(s, 2, 128, 159)
               \/ Between(s, 1, 238, 239) /\ Between(s, 2, 128, 191)
            /\ Between(s, 3, 128, 191) THEN 3
    ELSE IF /\ \/ At(s, 1) = 240 /\ Between(s, 2, 144, 191)
               \/ Between(s, 1, 241, 243) /\ Between(s, 2, 128, 191)
               \/ At(s, 1) = 244 /\ Between(s, 2, 128, 143)
            /\ Between(s, 3, 128, 191)
            /\ Between(s, 4, 128, 191) THEN 4
    ELSE 0

\* utf8.EncodeRune of a rune of the basic plane; a surrogate gives U+FFFD
EncodeRune(r) ==
    IF r < 128 THEN <<r>>
    ELSE IF r < 2048 THEN <<192 + r \div 64, 128 + (r % 64)>>
    ELSE IF r >= 55296 /\ r <= 57343 THEN <<239, 191, 189>>
    ELSE <<224 + r \div 4096, 128 + ((r \div 64) % 64), 128 + (r % 64)>>

\* the digit of "0123456789abcdef" and the value of a hex digit
HexDigit(d) == IF d < 10 THEN 48 + d ELSE 87 + d

HexVal(c) ==
    IF c >= 48 /\ c <= 57 THEN c - 48
    ELSE IF c >= 97 /\ c <= 102 THEN c - 87
    ELSE IF c >= 65 /\ c <= 70 THEN c - 55
    ELSE -1

\* htmlSafeSet: the ASCII bytes a JSON string holds as they are
HtmlSafe(b) == b >= 32 /\ b \notin {34, 92, 60, 62, 38}

\* the escape of an ASCII byte that is not safe
EscapeByte(b) ==
    IF b \in {34, 92} THEN <<92, b>>
    ELSE IF b = 8 THEN <<92, 98>>
    ELSE IF b = 12 THEN <<92, 102>>
    ELSE IF b = 10 THEN <<92, 110>>
    ELSE IF b = 13 THEN <<92, 114>>
    ELSE IF b = 9 THEN <<92, 116>>
    ELSE <<92, 117, 48, 48, HexDigit(b \div 16), HexDigit(b % 16)>>

RECURSIVE AppendString(_)
\* the body of a JSON string for the bytes s: escapes for unsafe ASCII, the
\* escape of U+FFFD for each byte of an invalid encoding, and U+2028 and
\* U+2029 escaped
AppendString(s) ==
    IF s = <<>> THEN <<>>
    ELSE IF s[1] < 128
        THEN (IF HtmlSafe(s[1]) THEN <<s[1]>> ELSE EscapeByte(s[1]))
                 \o AppendString(Tail(s))
    ELSE IF RuneLen(s) = 0
        THEN <<92, 117, 102, 102, 102, 100>> \o AppendString(Tail(s))
    ELSE IF s[1] = 226 /\ s[2] = 128 /\ s[3] \in {168, 169}
        THEN <<92, 117, 50, 48, 50, HexDigit(s[3] - 160)>>
                 \o AppendString(SubSeq(s, 4, Len(s)))
    ELSE SubSeq(s, 1, RuneLen(s)) \o AppendString(SubSeq(s, RuneLen(s) + 1, Len(s)))

\* the character of base64.StdEncoding for a 6-bit value, and back
B64Char(v) ==
    IF v < 26 THEN 65 + v
    ELSE IF v < 52 THEN 71 + v
    ELSE IF v < 62 THEN v - 4
    ELSE IF v = 62 THEN 43
    ELSE 47

B64Val(c) ==
    IF c >= 65 /\ c <= 90 THEN c - 65
    ELSE IF c >= 97 /\ c <= 122 THEN c - 71
    ELSE IF c >= 48 /\ c <= 57 THEN c + 4
    ELSE IF c = 43 THEN 62
    ELSE IF c = 47 THEN 63
    ELSE -1

RECURSIVE Base64Encode(_)
\* base64.StdEncoding.EncodeToString
Base64Encode(p) ==
    IF p = <<>> THEN <<>>
    ELSE IF Len(p) = 1
        THEN <<B64Char(p[1] \div 4), B64Char((p[1] % 4) * 16), 61, 61>>
    ELSE IF Len(p) = 2
        THEN <<B64Char(p[1] \div 4), B64Char((p[1] % 4) * 16 + p[2] \div 16),
               B64Char((p[2] % 16) * 4), 61>>
    ELSE <<B64Char(p[1] \div 4), B64Char((p[1] % 4) * 16 + p[2] \div 16),
           B64Char((p[2] % 16) * 4 + p[3] \div 64), B64Char(p[3] % 64)>>
             \o Base64Encode(SubSeq(p, 4, Len(p)))

\* the padded text t is well formed
Base64Valid(t) ==
    /\ Len(t) % 4 = 0
    /\ \A i \in 1..Len(t) :
          \/ B64Val(t[i]) >= 0
          \/ t[i] = 61 /\ i = Len(t)
          \/ t[i] = 61 /\ i = Len(t) - 1 /\ t[Len(t)] = 61

RECURSIVE Base64Decode(_)
\* base64.StdEncoding.Decode of a well formed text
Base64Decode(t) ==
    IF t = <<>> THEN <<>>
    ELSE LET a == B64Val(t[1])
             b == B64Val(t[2])
             c == B64Val(t[3])
             d == B64Val(t[4])
         IN  IF t[3] = 61 THEN <<a * 4 + b \div 16>>
             ELSE IF t[4] = 61 THEN <<a * 4 + b \div 16, (b % 16) * 16 + c \div 4>>
             ELSE <<a * 4 + b \div 16, (b % 16) * 16 + c \div 4, (c % 4) * 64 + d>>
                      \o Base64Decode(SubSeq(t, 5, Len(t)))

\* json.Marshal of an RPCMessage: its fields in the order of the struct
Marshal(msg) ==
    <<123, 34, 83, 101, 114, 118, 105, 99, 101, 77, 101, 116, 104, 111, 100, 34, 58>>
        \o <<34>> \o AppendString(ToBytes(msg.ServiceMethod)) \o <<34>>
        \o <<44, 34, 69, 114, 114, 111, 114, 34, 58>>
        \o <<34>> \o AppendString(ToBytes(msg.Error)) \o <<34>>
        \o <<44, 34, 80, 97, 121, 108, 111, 97, 100, 34, 58>>
        \o (IF msg.PayloadNil THEN <<110, 117, 108, 108>>
            ELSE <<34>> \o Base64Encode(ToBytes(msg.Payload)) \o <<34>>)
        \o <<125>>

RECURSIVE StringEnd(_, _)
\* the position of the quote that closes the string whose body starts at i,
\* 0 when there is none
StringEnd(s, i) ==
    IF i > Len(s) THEN 0
    ELSE IF s[i] = 34 THEN i
    ELSE IF s[i] = 92 THEN StringEnd(s, i + 2)
    ELSE StringEnd(s, i + 1)

RECURSIVE Unquote(_)
\* the bytes of the JSON string body c: escapes undone, \uXXXX as UTF-8, an
\* invalid byte as U+FFFD (Marshal writes no surrogate pair)
Unquote(c) ==
    IF c = <<>> THEN <<>>
    ELSE IF c[1] = 92 /\ At(c, 2) = 117
        THEN EncodeRune(HexVal(At(c, 3)) * 4096 + HexVal(At(c, 4)) * 256
                            + HexVal(At(c, 5)) * 16 + HexVal(At(c, 6)))
                 \o Unquote(SubSeq(c, 7, Len(c)))
    ELSE IF c[1] = 92
        THEN << CASE At(c, 2) = 98 -> 8
                  [] At(c, 2) = 102 -> 12
                  [] At(c, 2) = 110 -> 10
                  [] At(c, 2) = 114 -> 13
                  [] At(c, 2) = 116 -> 9
                  [] OTHER -> At(c, 2) >> \o Unquote(SubSeq(c, 3, Len(c)))
    ELSE IF RuneLen(c) = 0 THEN <<239, 191, 189>> \o Unquote(Tail(c))
    ELSE SubSeq(c, 1, RuneLen(c)) \o Unquote(SubSeq(c, RuneLen(c) + 1, Len(c)))

\* msg after the member key : value, where value is the body of a string or
\* null (isNull); null and an unknown key leave msg as it is
SetField(msg, key, isNull, body) ==
    IF isNull THEN msg
    ELSE IF key = <<83, 101, 114, 118, 105, 99, 101, 77, 101, 116, 104, 111, 100>>
        THEN [msg EXCEPT !.ServiceMethod = FromBytes(Unquote(body))]
    ELSE IF key = <<69, 114, 114, 111, 114>>
        THEN [msg EXCEPT !.Error = FromBytes(Unquote(body))]
    ELSE IF key = <<80, 97, 121, 108, 111, 97, 100>>
        THEN [msg EXCEPT !.Payload = FromBytes(Base64Decode(Unquote(body))),
                         !.PayloadNil = FALSE]
    ELSE msg

RECURSIVE Members(_, _, _)
\* the members of the object s from position i on, stored into msg
Members(s, i, msg) ==
    LET ke == StringEnd(s, i + 1)
        isNull == <<At(s, ke + 2), At(s, ke + 3), At(s, ke + 4), At(s, ke + 5)>>
                      = <<110, 117, 108, 108>>
        ve == IF isNull THEN ke + 5 ELSE StringEnd(s, ke + 3)
        key == Unquote(SubSeq(s, i + 1, ke - 1))
        body == IF isNull THEN <<>> ELSE SubSeq(s, ke + 3, ve - 1)
    IN  IF At(s, i) # 34 \/ ke = 0 \/ At(s, ke + 1) # 58 THEN Failed("invalid character")
        ELSE IF ~isNull /\ (At(s, ke + 2) # 34 \/ ve = 0) THEN Failed("invalid character")
        ELSE IF /\ ~isNull
                /\ key = <<80, 97, 121, 108, 111, 97, 100>>
                /\ ~Base64Valid(Unquote(body)) THEN Failed("illegal base64 data")
        ELSE IF At(s, ve + 1) = 44 THEN Members(s, ve + 2, SetField(msg, key, isNull, body))
        ELSE IF At(s, ve + 1) = 125 /\ ve + 1 = Len(s)
            THEN Decoded(SetField(msg, key, isNull, body))
        ELSE Failed("invalid character")

\* json.Unmarshal of an object of strings and nulls into a fresh RPCMessage
Unmarshal(s) ==
    IF At(s, 1) # 123 THEN Failed("invalid character")
    ELSE IF s = <<123, 125>> THEN Decoded(ZeroMessage)
    ELSE Members(s, 2, ZeroMessage)

\* JSONCodec.Encode and JSONCodec.Decode; the JSON text stays a sequence of
\* byte values
JSONEncode(msg) == Marshal(msg)

JSONDecode(data) == Unmarshal(data)

(***************************************************************************)
(* One round trip through the codec of a frame's codec type.               *)
(***************************************************************************)
\* codec.GetCodec(t).Encode and .Decode
CodecEncode(t, msg) == IF t = CodecTypeJSON THEN JSONEncode(msg) ELSE BinaryEncode(msg)

CodecDecode(t, data) == IF t = CodecTypeJSON THEN JSONDecode(data) ELSE BinaryDecode(data)

RECURSIVE StrsOfLen(_, _)
\* the sequences of n byte values out of the set bs
StrsOfLen(bs, n) ==
    IF n = 0 THEN {<<>>}
             ELSE {<<b>> \o t : b \in bs, t \in StrsOfLen(bs, n - 1)}

\* the bytes of the short strings: a, ", <, a line feed, the two bytes of
\* U+00E9, and 255, which no UTF-8 encoding holds
StrBytes == {97, 34, 60, 10, 195, 169, 255}

\* n bytes b
Rep(b, n) == IF n = 0 THEN <<>> ELSE <<Run(b, n)>>

\* the short envelopes: every short serviceMethod, an error that is empty,
\* plain, quoted or not UTF-8, and every short payload, nil included
ShortEnvelopes ==
    {RPCMessage(FromBytes(sm), FromBytes(e), FromBytes(p), isNil) :
        sm \in UNION {StrsOfLen(StrBytes, n) : n \in 0..MaxStrLen},
        e \in {<<>>, <<101>>, <<34>>, <<255>>},
        p \in UNION {StrsOfLen({0, 255}, n) : n \in 0..MaxPayloadLen},
        isNil \in {FALSE}}
      \cup
    {RPCMessage(FromBytes(sm), <<>>, <<>>, TRUE) :
        sm \in UNION {StrsOfLen(StrBytes, n) : n \in 0..MaxStrLen}}

\* the long envelopes: a serviceMethod and an error of 258, 65535 and 65536
\* bytes, a payload of 16909060 bytes (0x01020304)
LongEnvelopes ==
    {RPCMessage(Rep(b, n1), Rep(b, n2), Rep(7, n3), FALSE) :
        b \in {0, 97},
        n1 \in {0, 258, Uint16Range - 1, Uint16Range},
        n2 \in {0, 258, Uint16Range - 1, Uint16Range},
        n3 \in {0, 1, 16909060}}

CdIdle ==
    /\ cdType = CodecTypeJSON
    /\ cdMsg = ZeroMessage
    /\ cdData = <<>>
    /\ cdOut = Failed("none")
    /\ cdPc = "idle"

\* an envelope is about to be encoded: a short one by either codec, a long
\* one by the codec that writes length prefixes
CdInit ==
    /\ \/ cdType \in {CodecTypeJSON, CodecTypeBinary} /\ cdMsg \in ShortEnvelopes
       \/ cdType = CodecTypeBinary /\ cdMsg \in LongEnvelopes
    /\ cdData = <<>>
    /\ cdOut = Failed("none")
    /\ cdPc = "encode"

\* data, err := c.Encode(msg)
CdEncode ==
    /\ cdPc = "encode"
    /\ cdData' = CodecEncode(cdType, cdMsg)
    /\ cdPc' = "decode"
    /\ UNCHANGED <<cdType, cdMsg, cdOut>>
    /\ UNCHANGED nonCdVars

\* err = c.Decode(data, &decodedMsg)
CdDecode ==
    /\ cdPc = "decode"
    /\ cdOut' = CodecDecode(cdType, cdData)
    /\ cdPc' = "done"
    /\ UNCHANGED <<cdType, cdMsg, cdData>>
    /\ UNCHANGED nonCdVars

NextCd == CdEncode \/ CdDecode

(***************************************************************************)
(* Client.Call, step by step.  Error texts are sequences of characters.    *)
(***************************************************************************)
\* the error value nil, and an error with the text t
NilError == [nil |-> TRUE, text |-> <<>>]

ErrorOf(t) == [nil |-> FALSE, text |-> t]

\* "invalid serviceMethod format: " and "server error: "
StrInvalidFormat ==
    <<"i", "n", "v", "a", "l", "i", "d", " ", "s", "e", "r", "v", "i", "c", "e",
      "M", "e", "t", "h", "o", "d", " ", "f", "o", "r", "m", "a", "t", ":", " ">>

StrServerError ==
    <<"s", "e", "r", "v", "e", "r", " ", "e", "r", "r", "o", "r", ":", " ">>

\* a format check that accepts every serviceMethod with a dot
ValidFormat_AnyDot(sm) == Len(SplitDot(sm)) >= 2

\* len(strings.Split(serviceMethod, ".")) == 2
ValidFormat(sm) == Len(SplitDot(sm)) = 2

\* the Error fields of the envelopes a response channel may hold: empty, the
\* text of a handler error, of an I/O error, and texts with a verb and with
\* the prefix itself
RespErrors ==
    {<<>>, <<"x">>, <<"E", "O", "F">>, <<"%", "v">>, StrServerError \o <<"x">>}

\* the envelopes: Payload "ok" unmarshals into reply, "bad" is no JSON
RespEnvelopes == [error : RespErrors, payload : {"ok", "bad"}]

ClInit ==
    /\ clMethod = <<>>
    /\ clPc = "idle"
    /\ clTouched = {}
    /\ clResp = [error |-> <<>>, payload |-> "ok"]
    /\ clErr = NilError
    /\ clReply = "untouched"

\* Call(sm, args, reply) up to the check of len(split)
ClCall(sm) ==
    /\ clPc = "idle"
    /\ clMethod' = sm
    /\ IF ValidFormat(sm)
          THEN /\ clPc' = "discover"
               /\ clErr' = clErr
          ELSE /\ clPc' = "returned"
               /\ clErr' = ErrorOf(StrInvalidFormat \o sm)
    /\ UNCHANGED <<clTouched, clResp, clReply>>
    /\ UNCHANGED nonClVars

\* c.registry.Discover(serviceName), c.balancer.Pick(instances),
\* c.getTransport(instance.Addr) and t.Send(serviceMethod, args), each
\* returning nil (ok) or an error that Call returns as it is
ClStep(from, who, to, ok) ==
    /\ clPc = from
    /\ clTouched' = clTouched \cup {who}
    /\ IF ok
          THEN /\ clPc' = to
               /\ clErr' = clErr
          ELSE /\ clPc' = "returned"
               /\ clErr' = ErrorOf(<<who>>)
    /\ UNCHANGED <<clMethod, clResp, clReply>>
    /\ UNCHANGED nonClVars

ClDiscover(ok) == ClStep("discover", "registry", "pick", ok)

ClPick(ok) == ClStep("pick", "balancer", "getTransport", ok)

ClGetTransport(ok) == ClStep("getTransport", "transport", "send", ok)

ClSend(ok) == ClStep("send", "transport", "wait", ok)

\* resp := <-ch; the check of resp.Error; json.Unmarshal(resp.Payload, &reply)
ClRecv(resp) ==
    /\ clPc = "wait"
    /\ clResp' = resp
    /\ clPc' = "returned"
    /\ IF resp.error # <<>>
          THEN /\ clErr' = ErrorOf(StrServerError \o resp.error)
               /\ clReply' = clReply
          ELSE IF resp.payload = "ok"
          THEN /\ clErr' = NilError
               /\ clReply' = "written"
          ELSE /\ clErr' = ErrorOf(<<"j", "s", "o", "n">>)
               /\ clReply' = clReply
    /\ UNCHANGED <<clMethod, clTouched>>
    /\ UNCHANGED nonClVars

NextCl ==
    \/ \E sm \in UNION {StringsOfLen(n) : n \in 0..MaxMethodLen} : ClCall(sm)
    \/ \E ok \in BOOLEAN : ClDiscover(ok)
    \/ \E ok \in BOOLEAN : ClPick(ok)
    \/ \E ok \in BOOLEAN : ClGetTransport(ok)
    \/ \E ok \in BOOLEAN : ClSend(ok)
    \/ \E resp \in RespEnvelopes : ClRecv(resp)

(***************************************************************************)
(* The client transport connected to any peer.                             *)
(***************************************************************************)
\* the frames protocol.Decode gives to recvLoop when the peer is any
\* program: it accepts the three message types, and recvLoop does not look
\* at header.MsgType
PeerFrames == [seq : Callers, msgType : {MsgTypeRequest, MsgTypeResponse, MsgTypeHeartbeat}]

NextPeer ==
    \/ \E c \in Callers, ok \in BOOLEAN : SendBegin(c, ok)
    \/ \E c \in Callers : SendWriteHeader(c)
    \/ \E c \in Callers : SendWriteBody(c)
    \/ \E f \in PeerFrames : RecvDecode(f)
    \/ RecvDecodeErr
    \/ RecvLookup
    \/ RecvDeliver
    \/ \E k \in Callers : RangeVisit(k)
    \/ RangeEnd
    \/ RecvClear
    \/ HbLock
    \/ HbWrite
    \/ ConnReset

(***************************************************************************)
(* RoundRobinBalancer.Pick.  The int64 counter is an integer: its width is *)
(* out of the reach of the picks of a run.                                 *)
(***************************************************************************)
Pickers == 1..NumPickers

\* the instance lists: the first n of four addresses
InstanceLists ==
    {SubSeq(<<":8001", ":8002", ":8003", ":8004", ":8005">>, 1, n) : n \in 0..MaxInstances}

\* what Pick returns: an instance and a nil error, or nil and an error
Picked(addr) == [err |-> "", addr |-> addr]

PickError == [err |-> "no instances available", addr |-> ""]

NoPick == [err |-> "none", addr |-> ""]

RrIdle ==
    /\ rrCounter = 0
    /\ rrInstances = <<>>
    /\ rrPc = [p \in Pickers |-> "idle"]
    /\ rrIndex = [p \in Pickers |-> 0]
    /\ rrResult = [p \in Pickers |-> NoPick]
    /\ rrPicks = <<>>

\* a new balancer and any instance list of the bounded set
RrInit ==
    /\ rrCounter = 0
    /\ rrInstances \in InstanceLists
    /\ rrPc = [p \in Pickers |-> "idle"]
    /\ rrIndex = [p \in Pickers |-> 0]
    /\ rrResult = [p \in Pickers |-> NoPick]
    /\ rrPicks = <<>>

\* a Pick that reads the counter with a load and does not store the sum
RrAdd_LoadOnly(p) ==
    /\ rrPc[p] = "idle"
    /\ Len(rrPicks) < MaxPicks
    /\ IF Len(rrInstances) = 0
          THEN /\ rrResult' = [rrResult EXCEPT ![p] = PickError]
               /\ UNCHANGED <<rrCounter, rrPc, rrIndex, rrPicks>>
          ELSE /\ rrCounter' = rrCounter
               /\ rrIndex' = [rrIndex EXCEPT ![p] = (rrCounter + 1) % Len(rrInstances)]
               /\ rrPicks' = Append(rrPicks, (rrCounter + 1) % Len(rrInstances))
               /\ rrPc' = [rrPc EXCEPT ![p] = "added"]
               /\ rrResult' = [rrResult EXCEPT ![p] = NoPick]
    /\ UNCHANGED rrInstances
    /\ UNCHANGED nonRrVars

\* Pick up to index := atomic.AddInt64(&b.counter, 1) % int64(len(instances));
\* an empty list returns the error
RrAdd(p) ==
    /\ rrPc[p] = "idle"
    /\ Len(rrPicks) < MaxPicks
    /\ IF Len(rrInstances) = 0
          THEN /\ rrResult' = [rrResult EXCEPT ![p] = PickError]
               /\ UNCHANGED <<rrCounter, rrPc, rrIndex, rrPicks>>
          ELSE /\ rrCounter' = rrCounter + 1
               /\ rrIndex' = [rrIndex EXCEPT ![p] = (rrCounter + 1) % Len(rrInstances)]
               /\ rrPicks' = Append(rrPicks, (rrCounter + 1) % Len(rrInstances))
               /\ rrPc' = [rrPc EXCEPT ![p] = "added"]
               /\ rrResult' = [rrResult EXCEPT ![p] = NoPick]
    /\ UNCHANGED rrInstances
    /\ UNCHANGED nonRrVars

\* return &instances[index], nil
RrReturn(p) ==
    /\ rrPc[p] = "added"
    /\ rrResult' = [rrResult EXCEPT ![p] = Picked(rrInstances[rrIndex[p] + 1])]
    /\ rrPc' = [rrPc EXCEPT ![p] = "idle"]
    /\ UNCHANGED <<rrCounter, rrInstances, rrIndex, rrPicks>>
    /\ UNCHANGED nonRrVars

NextRr ==
    \/ \E p \in Pickers : RrAdd(p)
    \/ \E p \in Pickers : RrReturn(p)

(***************************************************************************)
(* A peer reading a stream of written chunks with protocol.Decode          *)
(***************************************************************************)
\* what the peer has got from chunk i of the stream ws on, when its Decode
\* calls begin at the first byte of chunk i: the frames decoded, each as the
\* positions <<header chunk, body chunk or 0>>; the number of chunks left
\* undecoded at the end of the stream; and ok = FALSE when a header's
\* BodyLen bytes do not end where the next written chunk ends, or when the
\* HeaderSize bytes read as a header are not a written header
RECURSIVE DecodeFrames(_, _)
DecodeFrames(ws, i) ==
    IF i > Len(ws)
      THEN [frames |-> <<>>, left |-> 0, ok |-> TRUE]
    ELSE IF ws[i].part # "hdr"
      THEN [frames |-> <<>>, left |-> Len(ws) - i + 1, ok |-> FALSE]
    ELSE IF ws[i].bodyLen = 0
      THEN [DecodeFrames(ws, i + 1) EXCEPT !.frames = <<<<i, 0>>>> \o @]
    ELSE IF i = Len(ws)
      THEN [frames |-> <<>>, left |-> 1, ok |-> TRUE]
    ELSE IF ws[i + 1].len = ws[i].bodyLen
      THEN [DecodeFrames(ws, i + 2) EXCEPT !.frames = <<<<i, i + 1>>>> \o @]
    ELSE [frames |-> <<>>, left |-> Len(ws) - i + 1, ok |-> FALSE]

\* the writers of frames: a client transport (its Sends and its heartbeat
\* loop) and, in another process, the workers of a server
NextFr ==
    \/ /\ SrvInit
       /\ \/ \E c \in Callers, ok \in BOOLEAN : SendBegin(c, ok)
          \/ \E c \in Callers : SendWriteHeader(c)
          \/ \E c \in Callers : SendWriteBody(c)
          \/ HbLock
          \/ HbWrite
          \/ ConnReset
    \/ CTInit /\ NextWk

(***************************************************************************)
(* WeightedRandomBalancer.Pick                                             *)
(***************************************************************************)
\* the weights an instance may carry: Weight is an int that the registry
\* hands through; Serve registers instances without a weight, that is 0
Weights == {-1, 0, 1, 2}

\* the non-empty instance lists, each instance given by its weight
RECURSIVE WeightLists(_)
WeightLists(n) ==
    IF n = 0 THEN {<<>>}
    ELSE {Append(ws, w) : ws \in WeightLists(n - 1), w \in Weights}

\* totalWeight
RECURSIVE TotalWeight(_)
TotalWeight(ws) == IF ws = <<>> THEN 0 ELSE ws[1] + TotalWeight(Tail(ws))

\* the values of rand.Intn(n): a number of [0, n); for n <= 0 there is none
\* and rand.Intn panics
Intn(n) == 0..(n - 1)

\* the second loop of Pick from instance i on with r left: the index of the
\* instance returned, or 0 when the loop ends without a return
RECURSIVE Scan(_, _, _)
Scan(ws, i, r) ==
    IF i > Len(ws) THEN 0
    ELSE IF r - ws[i] < 0 THEN i
    ELSE Scan(ws, i + 1, r - ws[i])

WrPicked(i) == [kind |-> "instance", index |-> i]

WrError == [kind |-> "error", index |-> 0]

WrPanic == [kind |-> "panic", index |-> 0]

WrNone == [kind |-> "none", index |-> 0]

\* Pick(instances) when rand.Intn gives r, if it gives a number at all
WeightedPick(ws, r) ==
    IF Intn(TotalWeight(ws)) = {} THEN WrPanic
    ELSE IF Scan(ws, 1, r) = 0 THEN WrError
    ELSE WrPicked(Scan(ws, 1, r))

WrIdle ==
    /\ wrWeights = <<0>>
    /\ wrPc = "call"
    /\ wrResult = WrNone

WrInit ==
    /\ wrWeights \in UNION {WeightLists(n) : n \in 1..MaxInstances}
    /\ wrPc = "call"
    /\ wrResult = WrNone

\* one call of Pick on the list; a panic ends the process
WrPick(r) ==
    /\ wrPc = "call"
    /\ IF Intn(TotalWeight(wrWeights)) = {} THEN r = 0 ELSE r \in Intn(TotalWeight(wrWeights))
    /\ wrResult' = WeightedPick(wrWeights, r)
    /\ wrPc' = IF WeightedPick(wrWeights, r) = WrPanic THEN "crashed" ELSE "returned"
    /\ UNCHANGED wrWeights
    /\ UNCHANGED nonWrVars

\* the values rand.Intn may give for the lists of the model
IntnValues == 0..(2 * MaxInstances)

NextWr == \E r \in IntnValues : WrPick(r)

(***************************************************************************)
(* ConnPool                                                                *)
(***************************************************************************)
Getters == 1..NumGetters

\* no connection held
NoPoolConn == [id |-> 0, unusable |-> FALSE]

\* the PoolConn createNew returns
PoolConn(n) == [id |-> n, unusable |-> FALSE]

\* NewConnPool: an empty channel of capacity maxConns, curConns zero
CpIdle ==
    /\ poolConns = <<>>
    /\ curConns = 0
    /\ created = 0
    /\ getPc = [g \in Getters |-> "idle"]
    /\ getConn = [g \in Getters |-> NoPoolConn]
    /\ getErr = [g \in Getters |-> "none"]
    /\ gets = [g \in Getters |-> 0]

\* Get, the first case of the select: an idle connection is received
GetSelectRecv(g) ==
    /\ getPc[g] = "idle"
    /\ gets[g] < MaxGets
    /\ poolConns # <<>>
    /\ poolConns' = Tail(poolConns)
    /\ IF Head(poolConns).unusable
          THEN /\ getPc' = [getPc EXCEPT ![g] = "create"]
               /\ getConn' = getConn
               /\ getErr' = [getErr EXCEPT ![g] = "none"]
               /\ gets' = gets
          ELSE /\ getPc' = [getPc EXCEPT ![g] = "holding"]
               /\ getConn' = [getConn EXCEPT ![g] = Head(poolConns)]
               /\ getErr' = [getErr EXCEPT ![g] = "nil"]
               /\ gets' = [gets EXCEPT ![g] = @ + 1]
    /\ UNCHANGED <<curConns, created>>
    /\ UNCHANGED nonCpVars

\* Get, the default case of the select: the channel is empty
GetSelectDefault(g) ==
    /\ getPc[g] = "idle"
    /\ gets[g] < MaxGets
    /\ poolConns = <<>>
    /\ getPc' = [getPc EXCEPT ![g] = "default"]
    /\ getErr' = [getErr EXCEPT ![g] = "none"]
    /\ UNCHANGED <<poolConns, curConns, created, getConn, gets>>
    /\ UNCHANGED nonCpVars

\* Get: p.curConns < p.maxConns, read without p.mu
GetReadCur(g) ==
    /\ getPc[g] = "default"
    /\ getPc' = [getPc EXCEPT ![g] = IF curConns < MaxConns THEN "create" ELSE "wait"]
    /\ UNCHANGED <<poolConns, curConns, created, getConn, getErr, gets>>
    /\ UNCHANGED nonCpVars

\* createNew, the whole of it under p.mu; ok tells whether the factory dials
CreateNew(g, ok) ==
    /\ getPc[g] = "create"
    /\ gets' = [gets EXCEPT ![g] = @ + 1]
    /\ IF curConns >= MaxConns
          THEN /\ getErr' = [getErr EXCEPT ![g] = "connection pool exhausted"]
               /\ getPc' = [getPc EXCEPT ![g] = "idle"]
               /\ UNCHANGED <<curConns, created, getConn>>
          ELSE IF ~ok
          THEN /\ getErr' = [getErr EXCEPT ![g] = "dial"]
               /\ getPc' = [getPc EXCEPT ![g] = "idle"]
               /\ UNCHANGED <<curConns, created, getConn>>
          ELSE /\ curConns' = curConns + 1
               /\ created' = created + 1
               /\ getConn' = [getConn EXCEPT ![g] = PoolConn(created + 1)]
               /\ getErr' = [getErr EXCEPT ![g] = "nil"]
               /\ getPc' = [getPc EXCEPT ![g] = "holding"]
    /\ UNCHANGED poolConns
    /\ UNCHANGED nonCpVars

\* Get at the limit: conn := <-p.conns blocks until a connection is put
GetWaitRecv(g) ==
    /\ getPc[g] = "wait"
    /\ poolConns # <<>>
    /\ poolConns' = Tail(poolConns)
    /\ getConn' = [getConn EXCEPT ![g] = Head(poolConns)]
    /\ getErr' = [getErr EXCEPT ![g] = "nil"]
    /\ getPc' = [getPc EXCEPT ![g] = "holding"]
    /\ gets' = [gets EXCEPT ![g] = @ + 1]
    /\ UNCHANGED <<curConns, created>>
    /\ UNCHANGED nonCpVars

\* Put of the connection the goroutine holds
Put(g) ==
    /\ getPc[g] = "holding"
    /\ IF getConn[g].unusable
          THEN /\ curConns' = curConns - 1
               /\ poolConns' = poolConns
          ELSE /\ Len(poolConns) < MaxConns
               /\ poolConns' = Append(poolConns, getConn[g])
               /\ curConns' = curConns
    /\ getConn' = [getConn EXCEPT ![g] = NoPoolConn]
    /\ getPc' = [getPc EXCEPT ![g] = "idle"]
    /\ UNCHANGED <<created, getErr, gets>>
    /\ UNCHANGED nonCpVars

NextCp ==
    \E g \in Getters :
        \/ GetSelectRecv(g)
        \/ GetSelectDefault(g)
        \/ GetReadCur(g)
        \/ \E ok \in BOOLEAN : CreateNew(g, ok)
        \/ GetWaitRecv(g)
        \/ Put(g)

vars == <<ctVars, srvVars, bhVars, facVars, mwVars, rlVars, toVars, rtVars, prVars, cdVars, clVars, rrVars, wrVars, cpVars>>

\* a fresh transport, a fresh server, and no handler call in progress
Init ==
    /\ CTInit
    /\ SrvInit
    /\ BHIdle
    /\ FacInit
    /\ MwInit
    /\ RlInit
    /\ ToInit
    /\ RtIdle
    /\ PrIdle
    /\ CdIdle
    /\ ClInit
    /\ RrIdle
    /\ WrIdle
    /\ CpIdle

SpecCT == Init /\ [][NextCT]_vars

SpecSrv == Init /\ [][NextSrv]_vars

SpecShut == Init /\ [][NextShut]_vars

\* Shutdown of a server whose requests were all read before the wait began
SpecEarly == Init /\ [][NextEarly]_vars

\* Shutdown's goroutine is scheduled: a select with a ready case is taken
FairSpecShut == SpecShut /\ WF_vars(\E r \in {"ok", "timeout"} : ShutdownSelect(r))

\* the handler is about to be called with any request of the bounded set
InitBH ==
    /\ CTInit
    /\ SrvInit
    /\ BHInit
    /\ FacInit
    /\ MwInit
    /\ RlInit
    /\ ToInit
    /\ RtIdle
    /\ PrIdle
    /\ CdIdle
    /\ ClInit
    /\ RrIdle
    /\ WrIdle
    /\ CpIdle

SpecBH == InitBH /\ [][NextBH]_vars

SpecFac == Init /\ [][NextFac]_vars

\* the transport after its seq counter has gone through its whole range
InitWrap ==
    /\ CTWrapped
    /\ SrvInit
    /\ BHIdle
    /\ FacInit
    /\ MwInit
    /\ RlInit
    /\ ToInit
    /\ RtIdle
    /\ PrIdle
    /\ CdIdle
    /\ ClInit
    /\ RrIdle
    /\ WrIdle
    /\ CpIdle

SpecWrap == InitWrap /\ [][NextCT]_vars

SpecMw == Init /\ [][NextMw]_vars

SpecRl == Init /\ [][NextRl]_vars

SpecTo == Init /\ [][NextTo]_vars

\* the goroutine running next is scheduled and next returns
FairSpecTo ==
    /\ SpecTo
    /\ \A r \in ToReqs : WF_vars(DsReturn(r)) /\ WF_vars(DsSend(r))

\* a request is about to go through a Retry handler of any bounded
\* maxRetries whose next answers with any errors of the set
InitRt ==
    /\ CTInit
    /\ SrvInit
    /\ BHIdle
    /\ FacInit
    /\ MwInit
    /\ RlInit
    /\ ToInit
    /\ RtInit
    /\ PrIdle
    /\ CdIdle
    /\ ClInit
    /\ RrIdle
    /\ WrIdle
    /\ CpIdle

SpecRt == InitRt /\ [][NextRt]_vars

InitPr ==
    /\ CTInit
    /\ SrvInit
    /\ BHIdle
    /\ FacInit
    /\ MwInit
    /\ RlInit
    /\ ToInit
    /\ RtIdle
    /\ PrInit
    /\ CdIdle
    /\ ClInit
    /\ RrIdle
    /\ WrIdle
    /\ CpIdle

SpecPr == InitPr /\ [][NextPr]_vars

InitDec ==
    /\ CTInit
    /\ SrvInit
    /\ BHIdle
    /\ FacInit
    /\ MwInit
    /\ RlInit
    /\ ToInit
    /\ RtIdle
    /\ PrCrafted
    /\ CdIdle
    /\ ClInit
    /\ RrIdle
    /\ WrIdle
    /\ CpIdle

SpecDec == InitDec /\ [][NextDec]_vars

\* one codec round trip of an envelope
InitCd ==
    /\ CTInit
    /\ SrvInit
    /\ BHIdle
    /\ FacInit
    /\ MwInit
    /\ RlInit
    /\ ToInit
    /\ RtIdle
    /\ PrIdle
    /\ CdInit
    /\ ClInit
    /\ RrIdle
    /\ WrIdle
    /\ CpIdle

SpecCd == InitCd /\ [][NextCd]_vars

\* one Client.Call
SpecCl == Init /\ [][NextCl]_vars

\* the client transport and a peer that may write any valid frame
SpecPeer == Init /\ [][NextPeer]_vars

\* goroutines picking from one instance list through one balancer
InitRr ==
    /\ CTInit
    /\ SrvInit
    /\ BHIdle
    /\ FacInit
    /\ MwInit
    /\ RlInit
    /\ ToInit
    /\ RtIdle
    /\ PrIdle
    /\ CdIdle
    /\ ClInit
    /\ RrInit
    /\ WrIdle
    /\ CpIdle

SpecRr == InitRr /\ [][NextRr]_vars

\* the workers of a serving server
SpecWk == Init /\ [][NextWk]_vars

\* the scheduler runs every goroutine that can take a step, and the handler
\* of every request but the first returns; the handler of the first request
\* may never return
FairSpecWk ==
    /\ SpecWk
    /\ \A w \in 1..MaxFrames :
          /\ WF_vars(WorkerAdd(w))
          /\ WF_vars(WorkerLockWriteHeader(w))
          /\ WF_vars(WorkerWriteBody(w))
    /\ \A w \in 2..MaxFrames : WF_vars(WorkerHandle(w))

\* the writers of frames, each on its own connection
SpecFr == Init /\ [][NextFr]_vars

\* Pick of the weighted random balancer on any list of the bounded set
InitWr ==
    /\ CTInit
    /\ SrvInit
    /\ BHIdle
    /\ FacInit
    /\ MwInit
    /\ RlInit
    /\ ToInit
    /\ RtIdle
    /\ PrIdle
    /\ CdIdle
    /\ ClInit
    /\ RrIdle
    /\ WrInit
    /\ CpIdle

SpecWr == InitWr /\ [][NextWr]_vars

\* concurrent Get and Put calls on one ConnPool
SpecCp == Init /\ [][NextCp]_vars

(***************************************************************************)
(* Properties of the client transport                                      *)
(***************************************************************************)
\* the envelopes of kind k in a channel history
HasKind(h, k) == \E i \in 1..Len(h) : h[i].kind = k

\* C1: every request whose Send returned a slot without error eventually has
\* an envelope delivered to that slot.  Once recvLoop has returned nothing
\* delivers any more, so the claim requires that by then every slot a Send
\* has returned (the caller is waiting on it) has had its envelope.
C1_ReturnedSlotGetsEnvelope ==
    recvPc = "exited" =>
        \A c \in Callers : sendPc[c] = "waiting" => got[c] # <<>>

\* C2 as stated: no response slot ever receives more than one envelope, every
\* slot still stored in the pending table is empty, and the channel recvLoop
\* or closeAllPending is about to send into is empty, so the send never blocks.
C2_Original ==
    /\ \A c \in Callers : Len(got[c]) <= 1
    /\ \A s \in DOMAIN pending : got[pending[s]] = <<>>
    /\ recvPc = "deliver" => Len(got[target]) < ChanCap
    /\ recvPc = "range" => \A k \in RangeKeys : Len(got[RangeChan(k)]) < ChanCap

\* C2 amended: no response slot ever receives more than one envelope; a slot
\* stored in the pending table is empty unless closeAllPending's Range has
\* already served it (it stays in the table until Clear); the channel
\* recvLoop or closeAllPending is about to send into is empty, so the send
\* never blocks.
C2_AtMostOneEnvelope ==
    /\ \A c \in Callers : Len(got[c]) <= 1
    /\ \A s \in DOMAIN pending :
          \/ got[pending[s]] = <<>>
          \/ recvPc \in {"range", "clear"} /\ s \in visited
    /\ recvPc = "deliver" => Len(got[target]) < ChanCap
    /\ recvPc = "range" => \A k \in RangeKeys : Len(got[RangeChan(k)]) < ChanCap

\* one slot has had its response, another the synthetic error of closeAllPending
C2_Witness ==
    /\ recvPc = "exited"
    /\ \E c \in Callers : HasKind(got[c], "resp")
    /\ \E c \in Callers : HasKind(got[c], "connerr")

\* C3: a received frame with seq s is delivered only to the slot Send
\* registered under s; a frame whose seq has no pending entry is dropped:
\* recvLoop goes on to the next Decode and the pending table and every slot
\* are unchanged.
C3_RoutedBySeq ==
    /\ [](\A c \in Callers : \A i \in 1..Len(got[c]) :
              got[c][i].kind = "resp" => got[c][i].seq = mySeq[c])
    /\ [](recvPc = "deliver" => mySeq[target] = cur.seq)
    /\ [][(recvPc = "lookup" /\ recvPc' # "lookup" /\ cur.seq \notin DOMAIN pending)
             => (recvPc' = "decode" /\ pending' = pending /\ got' = got)]_vars

\* a frame was delivered, a later frame with no pending entry was dropped
\* (no slot holds it), and the reader is back at Decode with another request
\* still pending
C3_Witness ==
    /\ recvPc = "decode"
    /\ cur.seq \in Callers
    /\ \A c \in Callers : \A i \in 1..Len(got[c]) : got[c][i].seq # cur.seq
    /\ \E c \in Callers : HasKind(got[c], "resp")
    /\ cur.seq \in DOMAIN pending

\* C4: the bytes written to the connection are a concatenation of whole
\* frames: every body chunk directly follows the header of its own frame,
\* and a header announcing a body is followed by nothing but that body.
C4_ClientWholeFrames ==
    \A i \in 1..Len(wire) :
        /\ wire[i].part = "body" =>
              /\ i > 1
              /\ wire[i-1].part = "hdr"
              /\ wire[i-1].msgType = MsgTypeRequest
              /\ wire[i-1].seq = wire[i].seq
              /\ wire[i-1].bodyLen = wire[i].len
        /\ (wire[i].part = "hdr" /\ wire[i].bodyLen > 0 /\ i < Len(wire)) =>
              /\ wire[i+1].part = "body"
              /\ wire[i+1].seq = wire[i].seq

\* two concurrent senders and the heartbeat have all written: a heartbeat
\* frame lies between two whole request frames
C4_Witness ==
    /\ Len(wire) >= 5
    /\ \E i \in 2..(Len(wire) - 1) : wire[i].msgType = MsgTypeHeartbeat
    /\ \A c \in {1, 2} : sendPc[c] = "waiting"

(***************************************************************************)
(* Properties of the server                                                *)
(***************************************************************************)
\* C5: per connection the bytes written are a concatenation of whole response
\* frames (a body chunk directly follows the header of the same worker, a
\* header is followed by nothing but that worker's body), the lock of a
\* connection is held exactly while one of its own workers is between its
\* two writes, and a worker is never kept waiting by the lock of another
\* connection.
C5_ServerWholeFrames ==
    /\ \A k \in Conns : \A i \in 1..Len(srvWire[k]) :
          /\ srvWire[k][i].part = "body" =>
                /\ i > 1
                /\ srvWire[k][i-1].part = "hdr"
                /\ srvWire[k][i-1].worker = srvWire[k][i].worker
          /\ (srvWire[k][i].part = "hdr" /\ i < Len(srvWire[k])) =>
                /\ srvWire[k][i+1].part = "body"
                /\ srvWire[k][i+1].worker = srvWire[k][i].worker
    /\ \A k \in Conns :
          writeMu[k] <=> (\E w \in DOMAIN workers : workers[w].conn = k /\ workers[w].pc = "body")
    /\ \A w \in DOMAIN workers :
          (workers[w].pc = "lock" /\ ~writeMu[workers[w].conn] /\ ~crashed)
              => ENABLED WorkerLockWriteHeader(w)

\* two workers of one connection have each written a whole response frame
C5_Witness ==
    \E k \in Conns :
        /\ Len(srvWire[k]) = 4
        /\ srvWire[k][1].worker # srvWire[k][3].worker
        /\ srvWire[k][4].part = "body"

\* the envelope the handler chain returns for worker w's request
HandlerResult(w) == businessHandler(workers[w].req)

\* C6: every response header written on a connection belongs to a request
\* read from that connection and carries msgType Response, that request's
\* seq and that request's codecType, whether the handler returned a success
\* or an error envelope; a request gets at most one response header.
C6_ResponseEchoesRequest ==
    \A k \in Conns : \A i \in 1..Len(srvWire[k]) :
        srvWire[k][i].part = "hdr" =>
            /\ srvWire[k][i].worker \in DOMAIN workers
            /\ workers[srvWire[k][i].worker].conn = k
            /\ srvWire[k][i].msgType = MsgTypeResponse
            /\ srvWire[k][i].seq = workers[srvWire[k][i].worker].seq
            /\ srvWire[k][i].codecType = workers[srvWire[k][i].worker].codecType
            /\ \A j \in 1..Len(srvWire[k]) :
                  (srvWire[k][j].part = "hdr" /\ srvWire[k][j].worker = srvWire[k][i].worker)
                      => j = i

\* a binary-codec request whose handler returned an error envelope and a
\* request with another seq have both been answered
C6_Witness ==
    \E k \in Conns : \E i, j \in 1..Len(srvWire[k]) :
        /\ srvWire[k][i].part = "hdr"
        /\ srvWire[k][i].codecType = CodecTypeBinary
        /\ HandlerResult(srvWire[k][i].worker).error # ""
        /\ srvWire[k][j].part = "hdr"
        /\ srvWire[k][j].seq # srvWire[k][i].seq

(***************************************************************************)
(* Properties of the business handler                                      *)
(***************************************************************************)
\* number of dots of a string
Dots(sm) == Cardinality({i \in 1..Len(sm) : sm[i] = "."})

\* the part of sm before its first dot, and the part after it
ServiceOf(sm) == SubSeq(sm, 1, FirstDot(sm, 1) - 1)

MethodOf(sm) == SubSeq(sm, FirstDot(sm, 1) + 1, Len(sm))

Malformed(req) == Dots(req.serviceMethod) # 1

UnknownService(req) == ~Malformed(req) /\ ServiceOf(req.serviceMethod) \notin DOMAIN ServiceMap

UnknownMethod(req) ==
    /\ ~Malformed(req)
    /\ ServiceOf(req.serviceMethod) \in DOMAIN ServiceMap
    /\ MethodOf(req.serviceMethod) \notin ServiceMap[ServiceOf(req.serviceMethod)]

LookupFailure(req) == Malformed(req) \/ UnknownService(req) \/ UnknownMethod(req)

\* C7: for every request envelope the business handler returns an envelope
\* and the process keeps running; a malformed serviceMethod, an unknown
\* service, an unknown method and a payload that does not deserialise each
\* yield a non-empty error string.
C7_ErrorsNeverCrash ==
    /\ bhPc # "crashed"
    /\ (bhPc = "returned" /\ (LookupFailure(bhReq) \/ bhReq.payload = "bad"))
          => bhResp.error # ""

\* C8: the returned envelope's serviceMethod equals the request's, and its
\* error is non-empty exactly when the call failed (lookup failure, payload
\* deserialisation failure, or the method returning an error).
C8_EchoesMethodAndError ==
    bhPc = "returned" =>
        /\ bhResp.serviceMethod = bhReq.serviceMethod
        /\ (bhResp.error # "") <=>
              (LookupFailure(bhReq) \/ bhReq.payload = "bad" \/ bhReq.payload = "fail")

(***************************************************************************)
(* Properties of graceful shutdown                                         *)
(***************************************************************************)
\* C9: Shutdown stores the flag only after its loop has visited every
\* service (calling Deregister when the registry is set), and closes the
\* listener only after the flag is stored; so an Accept error caused by the
\* closed listener is observed with the flag true and Serve returns nil.
C9_ShutdownOrder ==
    /\ [](shutdown => (shTodo = {} /\ shPc \notin {"idle", "dereg", "flag"}))
    /\ [](listener = "closed" => shutdown)
    /\ [](acceptErr = "closed" => shutdown)
    /\ []((servePc = "returned" /\ acceptErr = "closed") => serveResult = "nil")
    /\ [][(shPc = "dereg" /\ shTodo' # shTodo /\ svrRegistry)
             => registry' = {r \in registry : r.service \notin (shTodo \ shTodo')}]_vars

\* Serve, started with a registry, has returned nil after Shutdown closed
\* the listener, and no service is listed any more
C9_Witness ==
    /\ servePc = "returned"
    /\ acceptErr = "closed"
    /\ serveResult = "nil"
    /\ svrRegistry
    /\ registry = {}
    /\ shPc = "returned"

\* C10: Shutdown returns success only when the completion signal was given
\* (the waiter saw the in-flight counter at zero) and it does so whenever
\* the signal is there before the timer has fired; it returns the timeout
\* error only when the timer has fired and does so whenever the timer has
\* fired without the signal; once the timer has fired Shutdown returns,
\* even if a worker never finishes.
C10_ShutdownTimeout ==
    /\ [](shResult = "ok" => done)
    /\ [](shResult = "timeout" => timerFired)
    /\ [][(done' /\ ~done) => wg = 0]_vars
    /\ [][(shPc = "select" /\ shPc' = "returned") =>
             /\ (done /\ ~timerFired) => shResult' = "ok"
             /\ (timerFired /\ ~done) => shResult' = "timeout"]_vars
    /\ (shPc = "select" /\ timerFired) ~> (shPc = "returned")

\* Shutdown has returned the timeout error while a worker is still running
C10_Witness ==
    /\ shPc = "returned"
    /\ shResult = "timeout"
    /\ wg > 0
    /\ \E w \in DOMAIN workers : workers[w].pc = "handler"

(***************************************************************************)
(* Properties of the registration                                          *)
(***************************************************************************)

\* Discover(s) lists the server's advertise address
Discovers(s) == \E r \in registry : r.service = s /\ r.addr = AdvertiseAddr

\* C11: for a server started with a registry, from the end of Shutdown's
\* deregister loop up to the close of the listener, Discover lists the
\* advertise address for no registered service.
C11_DeregisteredBeforeClose ==
    (svrRegistry /\ shPc \in {"flag", "close"}) => \A s \in Services : ~Discovers(s)

(***************************************************************************)
(* Properties of the client facade                                         *)
(***************************************************************************)

\* C12: a Call that begins after a transport of its address has become
\* broken is not sent on that transport (the facade has replaced it).
C12_BrokenTransportReplaced ==
    [][\A c \in Calls :
          (callPc[c] = "send" /\ callPc'[c] = "sent")
              => <<callAddr[c], callT[c]>> \notin callBroken[c]]_vars

(***************************************************************************)
(* Properties of the seq counter                                           *)
(***************************************************************************)
\* the callers whose request is in flight: its slot is stored and not served
InFlight == {c \in Callers : sendPc[c] \in {"hdr", "body", "waiting"} /\ got[c] = <<>>}

\* C13: Send never stores its slot under a seq that has a pending entry of
\* a request still in flight, also after the counter has wrapped: an entry
\* of the table is never displaced and two requests in flight never have
\* the same seq.
C13_SeqNeverReused ==
    /\ [][\A s \in DOMAIN pending :
             (s \in DOMAIN pending' /\ pending[s] \in InFlight)
                 => pending'[s] = pending[s]]_vars
    /\ [](\A c, d \in InFlight : c # d => mySeq[c] # mySeq[d])

(***************************************************************************)
(* Properties of the middlewares                                           *)
(***************************************************************************)
RECURSIVE Onion(_)
\* m1(m2(...mn(businessHandler)...))
Onion(ms) == IF ms = <<>> THEN BusinessHandler ELSE <<Head(ms), Onion(Tail(ms))>>

\* C14: Chain(m1, ..., mn)(h) is m1(m2(...mn(h)...)); Serve composes the
\* handler once, from the middlewares added so far; a request enters the
\* middlewares in the order of their Use calls, the first-added first, and
\* the business handler last.
C14_ChainOrder ==
    /\ [][handler' # handler => (handler = <<>> /\ handler' = Onion(middlewares))]_vars
    /\ [][reqTrace' # reqTrace =>
             \E n \in 0..Len(middlewares) :
                 reqTrace' = SubSeq(middlewares, 1, n) \o BusinessHandler]_vars

\* a request went through two different middlewares and the business
\* handler while a middleware added after Serve is not part of the chain
C14_Witness ==
    /\ Len(reqTrace) = 3
    /\ reqTrace[1] # reqTrace[2]
    /\ Len(middlewares) = 3

\* C15: the bucket of one RateLimit handler is shared by its requests: of
\* the first three calls, made within the same second, the first two reach
\* next and the third returns "rate limit exceeded"; a call that finds the
\* bucket empty returns that error without invoking next, and no other call
\* does.
C15_SharedBucket ==
    /\ (Len(rlCalls) >= 3 /\ rlCalls[3].at - rlCalls[1].at < TicksPerSec) =>
          /\ rlCalls[1].next /\ rlCalls[1].resp.error = ""
          /\ rlCalls[2].next /\ rlCalls[2].resp.error = ""
          /\ ~rlCalls[3].next /\ rlCalls[3].resp.error = "rate limit exceeded"
    /\ \A i \in 1..Len(rlCalls) :
          /\ rlCalls[i].empty => (~rlCalls[i].next /\ rlCalls[i].resp.error = "rate limit exceeded")
          /\ ~rlCalls[i].empty => (rlCalls[i].next /\ rlCalls[i].resp.error = "")
    /\ \A i, j \in 1..Len(rlCalls) :
          (i < j /\ rlCalls[j].at - rlCalls[i].at < TicksPerSec)
              => Cardinality({k \in i..j : rlCalls[k].next}) <= Burst

\* three calls within one second, the third refused
C15_Witness ==
    /\ Len(rlCalls) = 3
    /\ rlCalls[3].at - rlCalls[1].at < TicksPerSec
    /\ rlCalls[3].at > rlCalls[1].at
    /\ rlCalls[3].resp.error = "rate limit exceeded"

\* C16: the Timeout handler returns the downstream envelope when it is
\* there and the deadline has not passed, and the envelope with error
\* "request timed out" when the deadline has passed without a downstream
\* envelope; it returns one of the two in any case, the timeout error only
\* after the deadline.  After a timeout the downstream task is not
\* cancelled: it runs to completion, handing over its result never blocks
\* (the channel has room), and the result does not change what the handler
\* returned.
C16_Timeout ==
    /\ [][\A r \in ToReqs :
             (toPc[r] = "select" /\ toPc'[r] = "returned") =>
                 /\ (toDone[r] # <<>> /\ ~toTimer[r]) => toResp'[r] = dsResult[r]
                 /\ (toTimer[r] /\ toDone[r] = <<>>) => toResp'[r] = TimeoutEnvelope
                 /\ toResp'[r] \in {dsResult[r], TimeoutEnvelope}]_vars
    /\ [](\A r \in ToReqs :
             (toPc[r] = "returned" /\ toResp[r] = TimeoutEnvelope) => toTimer[r])
    /\ [](\A r \in ToReqs : dsPc[r] = "send" => Len(toDone[r]) < DoneCap)
    /\ [][\A r \in ToReqs : toPc[r] = "returned" => toResp'[r] = toResp[r]]_vars
    /\ \A r \in ToReqs :
          (toPc[r] = "returned" /\ toResp[r] = TimeoutEnvelope) ~> (dsPc[r] = "exited")

\* a request was answered with the timeout error before its downstream task
\* had returned; the task has since completed and left its result in the
\* channel
C16_Witness ==
    \E r \in ToReqs :
        /\ toPc[r] = "returned"
        /\ toResp[r] = TimeoutEnvelope
        /\ dsPc[r] = "exited"
        /\ toDone[r] = <<dsResult[r]>>

\* the text is pre \o sub \o post for some pre and post
HasText(err, sub) ==
    \E pre, post \in 0..Len(err) :
        /\ pre + Len(sub) + post = Len(err)
        /\ SubSeq(err, pre + 1, pre + Len(sub)) = sub

\* the error text contains "timeout" or "connection refused"
HasRetryText(err) == HasText(err, StrTimeout) \/ HasText(err, StrConnRefused)

\* C17: Retry(n, baseDelay) invokes next once and at most n more times,
\* each further invocation only after a response whose error contains
\* "timeout" or "connection refused"; it returns the response of the last
\* invocation, and it stops before n retries only at a response with an
\* empty error or an error without those texts.
C17_Retry ==
    rtPc = "returned" =>
        /\ rtCalls >= 1
        /\ rtCalls <= rtMax + 1
        /\ \A k \in 1..(rtCalls - 1) : HasRetryText(rtNext[k])
        /\ rtResp = rtNext[rtCalls]
        /\ rtCalls < rtMax + 1 => ~HasRetryText(rtNext[rtCalls])

\* two retries were made and the third response was returned although it
\* is retryable again
C17_Witness ==
    /\ rtPc = "returned"
    /\ rtMax = 2
    /\ rtCalls = 3
    /\ HasRetryText(rtResp)
    /\ rtNext[1] # rtNext[2]

(***************************************************************************)
(* Properties of the frame protocol                                        *)
(***************************************************************************)
\* C18: for a valid header whose bodyLen is the length of the body, Decode
\* of the bytes Encode wrote returns no error, the same codecType, msgType,
\* seq and bodyLen and the same body, having read the whole frame; so for
\* the empty body and for a body of 1 MiB.
C18_FrameRoundTrip ==
    prPc = "decoded" =>
        /\ prOut.err = ""
        /\ prOut.header = prHeader
        /\ prOut.body = prBody
        /\ prOut.read = HeaderSize + BLen(prBody)
        /\ BLen(prStream) = prOut.read

\* a frame with the largest seq and a body of 1 MiB has been decoded
C18_Witness ==
    /\ prPc = "decoded"
    /\ BLen(prBody) = MiB
    /\ Len(prBody) = 3
    /\ prHeader.seq = -1
    /\ prOut.header.bodyLen = MiB

\* the 14 header bytes of the stream
StreamHeader == ToBytes(Take(prStream, HeaderSize))

MagicOk == StreamHeader[1] = 109 /\ StreamHeader[2] = 114 /\ StreamHeader[3] = 112

VersionOk == StreamHeader[4] = 1

CodecOk == StreamHeader[5] \in {0, 1}

MsgTypeOk == StreamHeader[6] \in {0, 1, 2}

\* C19: on a stream of at least 14 bytes Decode reads the 14 header bytes
\* and rejects the frame without reading a body byte when the magic is not
\* 6d 72 70, the version not 01, the codecType not 0 or 1 or the msgType
\* not 0, 1 or 2; the first of these checks that fails, in this order,
\* decides the error, and each has an error of its own; a header that
\* passes all four is not rejected with any of them.
C19_DecodeRejects ==
    (prPc = "decoded" /\ BLen(prStream) >= HeaderSize) =>
        /\ ~MagicOk => prOut.err = "invalid magic number"
        /\ (MagicOk /\ ~VersionOk) => prOut.err = "unsupported version"
        /\ (MagicOk /\ VersionOk /\ ~CodecOk) => prOut.err = "unsupported codec type"
        /\ (MagicOk /\ VersionOk /\ CodecOk /\ ~MsgTypeOk) =>
              prOut.err = "unsupported message type"
        /\ ~(MagicOk /\ VersionOk /\ CodecOk /\ MsgTypeOk) =>
              (prOut.read = HeaderSize /\ prOut.body = <<>> /\ prOut.header = NoHeader)
        /\ (MagicOk /\ VersionOk /\ CodecOk /\ MsgTypeOk) =>
              /\ prOut.err \in {"", "EOF", "unexpected EOF"}
              /\ prOut.read >= HeaderSize

\* a frame whose magic, version and message type are all wrong, followed by
\* body bytes, was rejected for its magic after 14 bytes
C19_Witness ==
    /\ prPc = "decoded"
    /\ BLen(prStream) = HeaderSize + 2
    /\ ~MagicOk /\ ~VersionOk /\ CodecOk /\ ~MsgTypeOk
    /\ prOut.err = "invalid magic number"
    /\ prOut.read = HeaderSize

(***************************************************************************)
(* Properties of the envelope codecs.                                      *)
(***************************************************************************)
\* C20: for every envelope and for both codecs, Decode(Encode(m)) returns
\* without error and gives back m field by field: the same serviceMethod, the
\* same error and the same payload bytes (a nil and an empty payload both
\* hold no bytes).
C20_CodecRoundTrip ==
    cdPc = "done" =>
        /\ ~cdOut.panic
        /\ cdOut.err = ""
        /\ cdOut.msg.ServiceMethod = cdMsg.ServiceMethod
        /\ cdOut.msg.Error = cdMsg.Error
        /\ cdOut.msg.Payload = cdMsg.Payload

(***************************************************************************)
(* Properties of Client.Call                                               *)
(***************************************************************************)
\* the number of "." in s
RECURSIVE DotCount(_)
DotCount(s) == IF s = <<>> THEN 0 ELSE (IF Head(s) = "." THEN 1 ELSE 0) + DotCount(Tail(s))

\* C21: a Call whose serviceMethod does not hold exactly one dot returns an
\* error without having called the registry, the balancer or a transport; a
\* Call that reads an envelope with a non-empty error returns the error
\* "server error: " followed by that text verbatim and leaves reply
\* untouched.
C21_CallErrors ==
    /\ (clPc # "idle" /\ DotCount(clMethod) # 1) =>
          (clPc = "returned" /\ ~clErr.nil /\ clTouched = {})
    /\ (clPc = "returned" /\ clResp.error # <<>>) =>
          /\ ~clErr.nil
          /\ clErr.text = StrServerError \o clResp.error
          /\ clReply = "untouched"

C21_Witness ==
    /\ clPc = "returned"
    /\ clResp.error = <<"%", "v">>
    /\ clErr.text = StrServerError \o <<"%", "v">>
    /\ clReply = "untouched"
    /\ clTouched = {"registry", "balancer", "transport"}

(***************************************************************************)
(* Properties of the heartbeat                                             *)
(***************************************************************************)
\* the heartbeat frame of a client, as a server reader decodes it
HeartbeatFrame == Frame(MsgTypeHeartbeat, CodecTypeJSON, 0, Request(<<>>, "ok"))

\* C22: a Heartbeat frame is never surfaced and has no body: every chunk the
\* client writes for a heartbeat is a header with bodyLen 0; a server reader
\* that decodes a Heartbeat frame starts no worker, writes nothing and
\* leaves the in-flight counter as it is; and no response channel of the
\* client transport receives an envelope made from a Heartbeat frame.
C22_HeartbeatNotSurfaced ==
    /\ [](\A i \in 1..Len(wire) :
            wire[i].msgType = MsgTypeHeartbeat => (wire[i].part = "hdr" /\ wire[i].bodyLen = 0))
    /\ [][\A k \in Conns : ReaderFrame(k, HeartbeatFrame) => UNCHANGED <<workers, srvWire, wg>>]_vars
    /\ [](\A c \in Callers : \A i \in 1..Len(got[c]) : got[c][i].msgType # MsgTypeHeartbeat)

(***************************************************************************)
(* Properties of the balancers                                             *)
(***************************************************************************)
\* C23: over a fixed non-empty list, any len(instances) consecutive picks
\* (in the order of their atomic adds, whichever goroutines make them) give
\* len(instances) different instances, the pick after them gives the first
\* of them again, and every Pick returns the instance of its index without
\* an error; Pick on an empty list returns an error and picks nothing.
C23_RoundRobinCycles ==
    LET n == Len(rrInstances)
    IN  /\ \A i, j \in 1..Len(rrPicks) :
              (i < j /\ j - i < n) => rrPicks[i] # rrPicks[j]
        /\ \A i \in 1..Len(rrPicks) :
              i + n <= Len(rrPicks) => rrPicks[i + n] = rrPicks[i]
        /\ \A i \in 1..Len(rrPicks) : rrPicks[i] \in 0..(n - 1)
        /\ \A p \in Pickers :
              /\ (n > 0 /\ rrResult[p] # NoPick) =>
                    rrResult[p] = Picked(rrInstances[rrIndex[p] + 1])
              /\ (n = 0 /\ rrResult[p] # NoPick) =>
                    (rrResult[p].err # "" /\ rrResult[p].addr = "" /\ rrPicks = <<>>)

C23_Witness ==
    /\ Len(rrInstances) = 3
    /\ Len(rrPicks) = 4
    /\ rrPicks[4] = rrPicks[1]
    /\ rrPc[1] = "added"
    /\ rrPc[2] = "added"
    /\ rrIndex[1] # rrIndex[2]

(***************************************************************************)
(* Properties of ClientTransport.Send and of the reader's error path       *)
(***************************************************************************)
\* the callers whose Send has written a chunk of its request frame and has
\* not failed
OnWire(c) ==
    /\ sendPc[c] \in {"body", "waiting"}
    /\ \E i \in 1..Len(wire) : wire[i].msgType = MsgTypeRequest /\ wire[i].seq = mySeq[c]

\* the reader has taken the entry of caller c out of the table: its envelope
\* is in the channel or is the one being sent into it
Taken(c) == got[c] # <<>> \/ (recvPc = "deliver" /\ target = c)

ReaderFailed == recvPc \in {"range", "clear", "exited"}

\* the rest of the reader's error path: a callback of Range never blocks on
\* a full channel, Clear leaves the table empty and the reader exits, and
\* after the error no further frame is decoded
ErrorPathEnds ==
    /\ [](recvPc = "range" =>
            \A k \in (DOMAIN pending \cap DOMAIN rangeSnap) \ visited :
                Len(got[RangeChan(k)]) < ChanCap)
    /\ [][recvPc = "clear" /\ recvPc' # "clear" =>
            pending' = EmptyMap /\ recvPc' = "exited"]_vars
    /\ [][ReaderFailed => (ReaderFailed' /\ nInbound' = nInbound /\ cur' = cur)]_vars

\* C25 as stated: every entry that is in the pending table when the reader
\* hits the error has got one synthetic envelope by the time Range has
\* returned.
C25_Original ==
    /\ [](recvPc \in {"clear", "exited"} =>
            \A k \in DOMAIN rangeSnap : got[rangeSnap[k]] = <<ErrEnvelope>>)
    /\ ErrorPathEnds

\* C25: on a decode or I/O error the reader delivers one synthetic envelope
\* to every entry that is in the pending table at that moment, except an
\* entry whose own Send fails and deletes it before Range reaches it; then
\* it leaves the table empty and exits, and decodes no further frame.
C25_ErrorReachesPending ==
    /\ [](recvPc \in {"clear", "exited"} =>
            \A k \in DOMAIN rangeSnap :
                \/ got[rangeSnap[k]] = <<ErrEnvelope>>
                \/ (got[rangeSnap[k]] = <<>> /\ sendPc[rangeSnap[k]] = "failed"))
    /\ ErrorPathEnds

C25_Witness ==
    /\ recvPc = "exited"
    /\ DOMAIN rangeSnap = {1, 2}
    /\ got[rangeSnap[1]] = <<ErrEnvelope>>
    /\ got[rangeSnap[2]] = <<ErrEnvelope>>
    /\ pending = EmptyMap
    /\ sendPc = [c \in Callers |-> "waiting"]

\* another request in flight holds the seq that the Send of caller c
\* consumed: the counter has wrapped meanwhile
SeqShared(c) ==
    \E d \in Callers \ {c} : mySeq[d] = mySeq[c] /\ sendPc[d] \in {"hdr", "body", "waiting"}

ReqChunks == {i \in 1..Len(wire) : wire[i].msgType = MsgTypeRequest}

\* the callers whose Send has returned, and those whose Send holds the lock
Returned(c) == sendPc[c] \in {"waiting", "failed"}

Writing(c) == sendPc[c] \in {"hdr", "body"}

\* C27: on a transport whose counter has not wrapped the request frames are
\* on the wire in strictly increasing seq order (a later chunk has a greater
\* seq, or is the body after the header of the same frame), and that is the
\* order in which the Sends took the lock and returned: at most one Send
\* holds the lock, its seq is the newest and is greater than the seq of
\* every Send that has returned, and no chunk of a seq newer than the
\* counter is on the wire.
C27_WireOrderIsSeqOrder ==
    /\ \A i, j \in ReqChunks :
          i < j => \/ wire[i].seq < wire[j].seq
                   \/ /\ wire[i].seq = wire[j].seq
                      /\ j = i + 1
                      /\ wire[i].part = "hdr"
                      /\ wire[j].part = "body"
    /\ \A c, d \in Callers : (Writing(c) /\ Writing(d)) => c = d
    /\ \A c \in Callers : Writing(c) => (sending /\ mySeq[c] = seq)
    /\ \A c, d \in Callers : (Writing(c) /\ Returned(d)) => mySeq[d] < mySeq[c]
    /\ \A c, d \in Callers : (Returned(c) /\ Returned(d) /\ c # d) => mySeq[c] # mySeq[d]
    /\ \A i \in ReqChunks : 0 < wire[i].seq /\ wire[i].seq <= seq

C27_Witness ==
    /\ mySeq[2] = 1
    /\ mySeq[1] = 2
    /\ sendPc[2] = "waiting"
    /\ sendPc[1] = "body"
    /\ Len(wire) = 4
    /\ wire[3].msgType = MsgTypeHeartbeat
    /\ wire[4] = HdrChunk(MsgTypeRequest, 2, ArgLen(1))

(***************************************************************************)
(* Properties of the server's workers                                      *)
(***************************************************************************)
\* worker w has written the whole response frame of its request
ResponseWritten(w) ==
    /\ w \in DOMAIN workers
    /\ \E i \in 1..Len(srvWire[workers[w].conn]) :
          srvWire[workers[w].conn][i] = SrvBodyChunk(w)

\* C28: a request whose handler never returns does not block the requests
\* read after it: whether or not the handler of the first request ever
\* returns, every later request, on the same connection or another, gets its
\* response written, unless its own Encode fails or its connection is
\* closed.
C28_NoHeadOfLineBlocking ==
    \A w \in 2..MaxFrames :
        (w \in DOMAIN workers) ~>
            /\ w \in DOMAIN workers
            /\ \/ ResponseWritten(w)
               \/ workers[w].pc = "encfail"
               \/ conn[workers[w].conn] = "closed"

C28_Witness ==
    /\ Len(workers) = 2
    /\ workers[1].conn = workers[2].conn
    /\ workers[1].pc = "handler"
    /\ ResponseWritten(2)
    /\ conn[workers[2].conn] = "open"
    /\ \A i \in 1..Len(srvWire[workers[1].conn]) : srvWire[workers[1].conn][i].worker = 2

\* the workers of connection k that hold its write lock
Holders(k) == {w \in DOMAIN workers : workers[w].conn = k /\ workers[w].pc = "body"}

\* C29: the write lock of a connection is held only by a worker whose
\* handler has returned and that is writing its response, by one such worker
\* at a time, and by no worker that has returned, whether it wrote its
\* response, failed to encode it or failed to write it: the lock is taken
\* exactly when one worker of the connection is between Lock and its return.
C29_WriteLockOnlyAroundWrite ==
    \A k \in Conns :
        /\ writeMu[k] <=> Holders(k) # {}
        /\ Cardinality(Holders(k)) <= 1

C29_Witness ==
    /\ Len(workers) = 2
    /\ workers[1].conn = workers[2].conn
    /\ workers[1].pc = "encfail"
    /\ workers[2].pc = "handler"
    /\ ~writeMu[workers[1].conn]

\* the workers that have entered handleRequest and not yet returned
Running == {w \in DOMAIN workers : workers[w].pc \in {"handler", "lock", "body"}}

\* C30: the in-flight counter equals the number of workers that have done
\* their wg.Add(1) and not yet returned, whichever way they return; it is
\* never negative and is zero when no worker is running.
C30_CounterIsRunningWorkers ==
    /\ wg = Cardinality(Running)
    /\ wg >= 0
    /\ (Running = {} => wg = 0)

C30_Witness ==
    /\ Len(workers) = 2
    /\ workers[1].pc = "done"
    /\ conn[workers[1].conn] = "closed"
    /\ srvWire[workers[1].conn] = <<>>
    /\ workers[2].pc = "body"
    /\ wg = 1

(***************************************************************************)
(* Properties of Shutdown and of the server reader                         *)
(***************************************************************************)
\* Shutdown has returned nil
ShutdownSucceeded == shPc = "returned" /\ shResult = "ok"

\* C31: a request frame that the reader has dispatched before Shutdown's
\* wait began counts as in flight from its dispatch: when every frame was
\* read before the wait began, Shutdown has not returned success while the
\* worker of a dispatched frame, started or not, has not finished.
C31_DispatchedIsInFlight ==
    ShutdownSucceeded =>
        \A w \in DOMAIN workers : workers[w].pc \in {"done", "encfail"}

C33_WorkersOnlyForRequests ==
    [][\A k \in Conns : \A f \in SrvFrames(nFrames + 1) :
          (f.msgType # MsgTypeRequest /\ ReaderFrame(k, f)) =>
              UNCHANGED <<workers, srvWire>>]_vars

(***************************************************************************)
(* Properties of the written streams                                       *)
(***************************************************************************)
\* the positions of the headers in a stream of chunks
Headers(ws) == {i \in 1..Len(ws) : ws[i].part = "hdr"}

\* the peer decodes from the stream ws exactly the frames written into it,
\* in order: every header but one still without a body, with a body of
\* BodyLen bytes that is the body written for that header, and none for a
\* Heartbeat
Recovers(ws) ==
    LET d == DecodeFrames(ws, 1)
    IN  /\ d.ok
        /\ {d.frames[j][1] : j \in 1..Len(d.frames)} =
              {i \in Headers(ws) : i < Len(ws) \/ ws[i].bodyLen = 0}
        /\ \A j, l \in 1..Len(d.frames) : j < l => d.frames[j][1] < d.frames[l][1]
        /\ \A j \in 1..Len(d.frames) :
              LET h == ws[d.frames[j][1]]
              IN  IF d.frames[j][2] = 0
                    THEN h.bodyLen = 0 /\ h.msgType = MsgTypeHeartbeat
                    ELSE /\ ws[d.frames[j][2]].part = "body"
                         /\ ws[d.frames[j][2]].seq = h.seq
                         /\ ws[d.frames[j][2]].len = h.bodyLen
                         /\ h.msgType # MsgTypeHeartbeat
        /\ \A i \in Headers(ws) : ws[i].msgType = MsgTypeHeartbeat => ws[i].bodyLen = 0

Left(ws) == DecodeFrames(ws, 1).left

\* a Send, or a worker of connection k, is between its header write and its
\* body write
ClientWriting == \E c \in Callers : sendPc[c] = "body"

ServerWriting(k) == Holders(k) # {}

Created(a) == {i \in DOMAIN transports[a] : transports[a][i] # "nil"}

\* a getTransport that has returned a transport returned the element at
\* the index of its captured counter value
IndexedByCounter ==
    \A c \in Calls :
        callPc[c] \in {"send", "sent", "panicked"} =>
            /\ callT[c] = (callN[c] % PoolSize) + 1
            /\ callT[c] \in DOMAIN transports[callAddr[c]]

\* the pool array of an address is made at most once, and its transports
\* are the connections dialled for the address
MadeOnce ==
    \A a \in Addrs :
        /\ made[a] <= 1
        /\ made[a] = 0 <=> transports[a] = <<>>
        /\ made[a] = 1 => Len(transports[a]) = PoolSize
        /\ dialled[a] = Cardinality(Created(a))

C36_NeverNilTransport ==
    \A c \in Calls :
        callPc[c] = "send" => transports[callAddr[c]][callT[c]] # "nil"

\* C38: WeightedRandomBalancer.Pick on a non-empty list returns one of the
\* instances of the list and neither fails nor crashes, whatever the
\* weights are.
C38_WeightedPickNeverFails ==
    wrPc # "call" =>
        /\ wrPc = "returned"
        /\ wrResult.kind = "instance"
        /\ wrResult.index \in 1..Len(wrWeights)

(***************************************************************************)
(* Properties of Serve                                                     *)
(***************************************************************************)
\* no connection has been accepted yet
NoneAccepted == \A k \in Conns : conn[k] = "none"

\* C37: when the listener cannot be bound Serve returns the bind error,
\* having registered nothing and accepted nothing, and never does either;
\* when the bind succeeds and a registry is given, every Register call is
\* made before the first connection is accepted, each for a service of the
\* service map under advertiseAddr with a TTL of 10 seconds, so that at the
\* first accept every service is registered (unless a concurrent Shutdown
\* has begun to deregister).
C37_ServeRegistersBeforeAccept ==
    /\ [][(servePc = "init" /\ servePc' # "init" /\ listener' = "nil") =>
             /\ servePc' = "returned"
             /\ serveResult' = "err"
             /\ registry' = registry
             /\ regTodo' = {}]_vars
    /\ [](listener = "nil" => (registry = {} /\ regTodo = {} /\ NoneAccepted))
    /\ [](~NoneAccepted => (regTodo = {} /\ servePc \notin {"init", "register"}))
    /\ [][\A r \in registry' \ registry :
             /\ r = Registration(r.service)
             /\ r.service \in Services
             /\ r.addr = AdvertiseAddr
             /\ r.ttl = 10
             /\ svrRegistry
             /\ NoneAccepted']_vars
    /\ [][(NoneAccepted /\ ~NoneAccepted' /\ svrRegistry /\ shPc = "idle") =>
             registry = {Registration(s) : s \in Services}]_vars

C37_Witness ==
    /\ svrRegistry
    /\ conn[1] = "open"
    /\ registry = {[service |-> <<"A">>, addr |-> AdvertiseAddr, weight |-> 0, ttl |-> 10]}
    /\ shPc = "idle"
    /\ workers = <<>>

(***************************************************************************)
(* Properties of ConnPool                                                  *)
(***************************************************************************)
\* C39: a Get that finds no idle connection while the pool has maxConns
\* connections blocks until a Put and returns the connection put; no Get
\* returns "connection pool exhausted", and no connection is held by two
\* goroutines at once.
C39_GetBlocksNeverExhausted ==
    /\ [](\A g \in Getters : getErr[g] # "connection pool exhausted")
    /\ [](\A g, h \in Getters :
             (g # h /\ getPc[g] = "holding" /\ getPc[h] = "holding") =>
                 getConn[g].id # getConn[h].id)
    /\ [][\A g \in Getters :
             (getPc[g] = "wait" /\ getPc'[g] # "wait") =>
                 /\ poolConns # <<>>
                 /\ getConn'[g] = Head(poolConns)
                 /\ getErr'[g] = "nil"]_vars
====
